---- MODULE Spec2Model ----
(***************************************************************************)
(* Model of the rustest execution pipeline (src/src/execution.rs): the     *)
(* run orchestrator, the batch scheduler for async tests, the test         *)
(* executor, the fixture resolver with its layered scope caches, the loop  *)
(* registry and the generator teardown lists.                              *)
(*                                                                         *)
(* The host runtime (Python) is modelled by the record py: a counter of    *)
(* event loops, the set of closed loops, a counter of callable             *)
(* invocations and the trace of everything the engine asked the runtime    *)
(* to do (fixture setup, teardown, test call, loop creation and close).    *)
(***************************************************************************)
EXTENDS Integers, Sequences, FiniteSets, TLC

\* ------------------------------------------------------------------------
\* Bounds of the model
\* ------------------------------------------------------------------------
MaxModules == 3     \* modules per run
MaxFaults == 1      \* callables that raise during one run
MaxDepth == 6       \* nesting of resolve_argument before the host stack is exhausted

\* ------------------------------------------------------------------------
\* Option<T>
\* ------------------------------------------------------------------------
None == <<>>
Some(x) == <<x>>
IsSome(o) == o # <<>>
Unwrap(o) == o[1]

\* ------------------------------------------------------------------------
\* FixtureScope and its order
\* ------------------------------------------------------------------------
Scopes == {"function", "class", "module", "package", "session"}

order(s) ==
    CASE s = "function" -> 0
      [] s = "class" -> 1
      [] s = "module" -> 2
      [] s = "package" -> 3
      [] s = "session" -> 4

is_scope_wider(scope_a, scope_b) == order(scope_a) > order(scope_b)

\* ------------------------------------------------------------------------
\* Sequence helpers
\* ------------------------------------------------------------------------
Range(s) == {s[i] : i \in 1..Len(s)}

Reverse(s) == [i \in 1..Len(s) |-> s[Len(s) + 1 - i]]

RECURSIVE SeqFilter(_, _)
SeqFilter(s, keep) ==
    IF s = <<>> THEN <<>>
    ELSE IF Head(s) \in keep THEN <<Head(s)>> \o SeqFilter(Tail(s), keep)
         ELSE SeqFilter(Tail(s), keep)

IndexOf(s, x) == IF \E i \in 1..Len(s) : s[i] = x
                 THEN CHOOSE i \in 1..Len(s) : s[i] = x /\ \A j \in 1..(i - 1) : s[j] # x
                 ELSE 0

\* ------------------------------------------------------------------------
\* Declarative records produced by the collector (crate::model)
\* ------------------------------------------------------------------------
\* Fixture: flavour in {"plain", "generator", "async", "async_generator"};
\* class_name is an Option; nparams = 0 stands for params = None.
Fixture(name, parameters, scope, flavour, autouse, class_name, nparams) ==
    [name |-> name, parameters |-> parameters, scope |-> scope,
     is_generator |-> (flavour = "generator"),
     is_async |-> (flavour = "async"),
     is_async_generator |-> (flavour = "async_generator"),
     autouse |-> autouse, class_name |-> class_name, nparams |-> nparams]

\* Mark: name, positional args, and the loop_scope keyword (an Option).
Mark(name, args, loop_scope) == [name |-> name, args |-> args, loop_scope |-> loop_scope]
Asyncio == Mark("asyncio", <<>>, None)
AsyncioScope(s) == Mark("asyncio", <<>>, Some(s))
Usefixtures(names) == Mark("usefixtures", names, None)

\* TestCase: parameter_values maps a parameter name to a literal (a string);
\* fixture_param_indices maps a fixture name to the chosen index.
TestCase(name, class_name, parameters, parameter_values, indirect_params, fixture_param_indices, marks, is_async, skip_reason) ==
    [name |-> name, class_name |-> class_name, parameters |-> parameters,
     parameter_values |-> parameter_values, indirect_params |-> indirect_params,
     fixture_param_indices |-> fixture_param_indices, marks |-> marks,
     is_async |-> is_async, skip_reason |-> skip_reason]

NoMap == [x \in {} |-> x]

\* A plain test: no parametrisation, no marks.
SyncTest(name, class_name, parameters) ==
    TestCase(name, class_name, parameters, NoMap, <<>>, NoMap, <<>>, FALSE, None)
AsyncTest(name, class_name, parameters, marks) ==
    TestCase(name, class_name, parameters, NoMap, <<>>, NoMap, marks, TRUE, None)

\* TestModule: path is the sequence of path components.
TestModule(path, fixtures, tests) == [path |-> path, fixtures |-> fixtures, tests |-> tests]

\* IndexMap<String, Fixture>::get
FixtureGet(fixtures, name) ==
    IF \E i \in 1..Len(fixtures) : fixtures[i].name = name
    THEN Some(fixtures[CHOOSE i \in 1..Len(fixtures) : fixtures[i].name = name])
    ELSE None

\* ------------------------------------------------------------------------
\* State
\* ------------------------------------------------------------------------
VARIABLES
    modules,      \* the collected modules handed to run_collected_tests
    fail_fast,    \* config.fail_fast
    faults,       \* the callables that raise when the host runtime runs them
    context,      \* FixtureContext: caches, teardown lists, loops, package cursor
    py,           \* the host runtime: loops, invocation counter, trace
    pc,           \* position of run_collected_tests
    mi,           \* index of the current module
    groups,       \* tests_by_class of the current module
    gi,           \* index of the current class group
    pending,      \* what is left of the list the current loop iterates over
    results,      \* results: Vec<PyTestResult>
    counts,       \* passed / failed / skipped
    events,       \* what the renderer was told
    report,       \* the returned PyRunReport (an Option)
    last_failed,  \* the last-failed file of the cache directory (an Option)
    loaded        \* what read_last_failed returned after the run (an Option)

vars == <<modules, fail_fast, faults, context, py, pc, mi, groups, gi, pending,
          results, counts, events, report, last_failed, loaded>>

\* ------------------------------------------------------------------------
\* Host runtime
\* ------------------------------------------------------------------------
\* One entry of the trace of the host runtime.
EvAt(F, kind, name, key, scope, inv, loop, ok, args) ==
    [kind |-> kind, name |-> name, key |-> key, scope |-> scope,
     test |-> F.py.cur_test, file |-> F.py.cur_file, inv |-> inv, loop |-> loop, ok |-> ok,
     args |-> args]

LogArgs(F, kind, name, key, scope, inv, loop, ok, args) ==
    [F EXCEPT !.py.trace = Append(@, EvAt(F, kind, name, key, scope, inv, loop, ok, args))]

Log(F, kind, name, key, scope, inv, loop, ok) ==
    LogArgs(F, kind, name, key, scope, inv, loop, ok, <<>>)

NoKey == <<>>

\* A value of the host runtime.
Value(tag, name, file, inv, param) ==
    [tag |-> tag, name |-> name, file |-> file, inv |-> inv, param |-> param]
Literal(s) == Value("literal", s, "", 0, None)
ParamValue(name, idx) == Value("param", name, "", idx, None)
NoValue == Value("none", "", "", 0, None)

\* Results of the fallible operations: PyResult<T>.
Ok(F, v) == [F |-> F, ok |-> TRUE, val |-> v, err |-> <<>>]
Err(F, e) == [F |-> F, ok |-> FALSE, val |-> NoValue, err |-> e]

\* Does the host callable raise?  kind: "setup" (a fixture body up to its
\* yield or return), "teardown" (a generator body after its yield),
\* "test" (the test body), "skip" (the test body raises the skip signal),
\* "call" (calling an async test to obtain its coroutine).
Raises(kind, file, name) == <<kind, file, name>> \in faults

\* The exception a callable raises at one of its points, where kind names
\* the point: the skip signal (rustest.decorators.Skipped, whose formatted
\* message is_skip_exception recognises) or any other exception.
SkipAt(kind) == IF kind = "setup" THEN "setup_skip" ELSE "call_skip"
RaisesAt(kind, file, name) == Raises(kind, file, name) \/ Raises(SkipAt(kind), file, name)
RaisedAt(kind, file, name) ==
    IF Raises(kind, file, name) THEN <<"Raised", name>> ELSE <<"Skipped", name>>

\* asyncio.new_event_loop() followed by asyncio.set_event_loop(loop)
new_event_loop(F, scope) ==
    LET l == F.py.next_loop
        F1 == [F EXCEPT !.py.next_loop = @ + 1, !.py.current_loop = Some(l)]
    IN [F |-> Log(F1, "loop_new", "", NoKey, scope, 0, l, TRUE), loop |-> l]

\* ------------------------------------------------------------------------
\* FixtureContext, TeardownCollector
\* ------------------------------------------------------------------------
EmptyCache == [k \in {} |-> NoValue]

TeardownCollector_new == [session |-> <<>>, package |-> <<>>, module |-> <<>>, class |-> <<>>]

FixtureContext_new ==
    [session_cache |-> EmptyCache, package_cache |-> EmptyCache,
     module_cache |-> EmptyCache, class_cache |-> EmptyCache,
     teardowns |-> TeardownCollector_new,
     current_package |-> None,
     session_event_loop |-> None, package_event_loop |-> None,
     module_event_loop |-> None, class_event_loop |-> None]

CacheInsert(cache, key, v) == [k \in DOMAIN cache \cup {key} |-> IF k = key THEN v ELSE cache[k]]

\* ------------------------------------------------------------------------
\* FixtureResolver
\* ------------------------------------------------------------------------
\* A resolver that takes every parametrised value for a literal.
FixtureResolver_new_all_literal(fixtures, test_case, test_loop_scope) ==
    [fixtures |-> fixtures,
     parameters |-> test_case.parameter_values,
     fixture_param_indices |-> test_case.fixture_param_indices,
     indirect_params |-> <<>>,
     test_class_name |-> test_case.class_name,
     test_loop_scope |-> test_loop_scope,
     function_cache |-> EmptyCache,
     function_teardowns |-> <<>>,
     stack |-> {},
     current_fixture_param |-> None,
     function_event_loop |-> None]

\* A frame F bundles what a resolver works on: the borrowed FixtureContext,
\* the host runtime and the resolver's own fields.
FixtureResolver_new(fixtures, test_case, test_loop_scope) ==
    [fixtures |-> fixtures,
     parameters |-> test_case.parameter_values,
     fixture_param_indices |-> test_case.fixture_param_indices,
     indirect_params |-> test_case.indirect_params,
     test_class_name |-> test_case.class_name,
     test_loop_scope |-> test_loop_scope,
     function_cache |-> EmptyCache,
     function_teardowns |-> <<>>,
     stack |-> {},
     current_fixture_param |-> None,
     function_event_loop |-> None]

\* The cache key: the name, or name[idx] for a parametrised fixture.
Key(name) == <<name>>
\* A key of a parametrised fixture that leaves the index out.
KeyIdx_without_index(name, idx) == <<name>>
KeyIdx(name, idx) == <<name, idx>>

\* The slot of the loop registry for a scope.
LoopSlot(F, scope) ==
    CASE scope = "session" -> F.context.session_event_loop
      [] scope = "package" -> F.context.package_event_loop
      [] scope = "module" -> F.context.module_event_loop
      [] scope = "class" -> F.context.class_event_loop
      [] scope = "function" -> F.resolver.function_event_loop

SetLoopSlot(F, scope, v) ==
    CASE scope = "session" -> [F EXCEPT !.context.session_event_loop = v]
      [] scope = "package" -> [F EXCEPT !.context.package_event_loop = v]
      [] scope = "module" -> [F EXCEPT !.context.module_event_loop = v]
      [] scope = "class" -> [F EXCEPT !.context.class_event_loop = v]
      [] scope = "function" -> [F EXCEPT !.resolver.function_event_loop = v]

\* The handle in the slot whenever there is one, closed or not.
get_or_create_event_loop_reusing_closed(F, scope) ==
    LET event_loop_opt == LoopSlot(F, scope)
    IN IF IsSome(event_loop_opt)
       THEN [F |-> F, loop |-> Unwrap(event_loop_opt)]
       ELSE LET n == new_event_loop(F, scope)
            IN [F |-> SetLoopSlot(n.F, scope, Some(n.loop)), loop |-> n.loop]

\* A loop of its own for every request, whatever the slot holds.
get_or_create_event_loop_fresh(F, scope) ==
    LET n == new_event_loop(F, scope)
    IN [F |-> SetLoopSlot(n.F, scope, Some(n.loop)), loop |-> n.loop]

\* The loop in the slot of the scope if it is still open, a new one, put
\* in the slot, otherwise.
get_or_create_event_loop(F, scope) ==
    LET event_loop_opt == LoopSlot(F, scope)
    IN IF IsSome(event_loop_opt) /\ Unwrap(event_loop_opt) \notin F.py.closed
       THEN [F |-> F, loop |-> Unwrap(event_loop_opt)]
       ELSE LET n == new_event_loop(F, scope)
            IN [F |-> SetLoopSlot(n.F, scope, Some(n.loop)), loop |-> n.loop]

get_or_create_test_event_loop(F) == get_or_create_event_loop(F, F.resolver.test_loop_scope)

create_request_fixture(F) ==
    Ok([F EXCEPT !.py.next_inv = @ + 1],
       Value("request", "", "", F.py.next_inv, F.resolver.current_fixture_param))

\* validate_scope_dependency with the comparison turned around.
validate_scope_dependency_reversed(fixture, dependency) ==
    IF order(fixture.scope) < order(dependency.scope)
    THEN Some(<<"ScopeMismatch", fixture.name, dependency.name>>)
    ELSE None

\* Err(ScopeMismatch) when the dependency's scope is narrower.
validate_scope_dependency(fixture, dependency) ==
    IF order(fixture.scope) > order(dependency.scope)
    THEN Some(<<"ScopeMismatch", fixture.name, dependency.name>>)
    ELSE None

\* validate_dependencies without the validation.
validate_dependencies_skipped(fixtures, fixture, i) == None

\* The loop over fixture.parameters that validates each registered
\* dependency; yields the first error.
RECURSIVE validate_dependencies(_, _, _)
validate_dependencies(fixtures, fixture, i) ==
    IF i > Len(fixture.parameters) THEN None
    ELSE LET param == fixture.parameters[i]
             dep == FixtureGet(fixtures, param)
         IN IF param = "request" THEN validate_dependencies(fixtures, fixture, i + 1)
            ELSE IF IsSome(dep) /\ IsSome(validate_scope_dependency(fixture, Unwrap(dep)))
                 THEN validate_scope_dependency(fixture, Unwrap(dep))
                 ELSE validate_dependencies(fixtures, fixture, i + 1)

\* CacheProbe without the probe of the module cache.
CacheProbe_no_module(F, cache_key) ==
    IF cache_key \in DOMAIN F.resolver.function_cache THEN Some(F.resolver.function_cache[cache_key])
    ELSE IF cache_key \in DOMAIN F.context.class_cache THEN Some(F.context.class_cache[cache_key])
    ELSE IF cache_key \in DOMAIN F.context.package_cache THEN Some(F.context.package_cache[cache_key])
    ELSE IF cache_key \in DOMAIN F.context.session_cache THEN Some(F.context.session_cache[cache_key])
    ELSE None

\* The five probes, function -> class -> module -> package -> session.
CacheProbe(F, cache_key) ==
    IF cache_key \in DOMAIN F.resolver.function_cache THEN Some(F.resolver.function_cache[cache_key])
    ELSE IF cache_key \in DOMAIN F.context.class_cache THEN Some(F.context.class_cache[cache_key])
    ELSE IF cache_key \in DOMAIN F.context.module_cache THEN Some(F.context.module_cache[cache_key])
    ELSE IF cache_key \in DOMAIN F.context.package_cache THEN Some(F.context.package_cache[cache_key])
    ELSE IF cache_key \in DOMAIN F.context.session_cache THEN Some(F.context.session_cache[cache_key])
    ELSE None

\* The match on fixture.scope that pushes a generator on a teardown list.
PushTeardown(F, scope, generator) ==
    CASE scope = "session" -> [F EXCEPT !.context.teardowns.session = Append(@, generator)]
      [] scope = "package" -> [F EXCEPT !.context.teardowns.package = Append(@, generator)]
      [] scope = "module" -> [F EXCEPT !.context.teardowns.module = Append(@, generator)]
      [] scope = "class" -> [F EXCEPT !.context.teardowns.class = Append(@, generator)]
      [] scope = "function" -> [F EXCEPT !.resolver.function_teardowns = Append(@, generator)]

\* A store that keeps function-scoped values in the module layer.
StoreInCache_function_in_module(F, scope, cache_key, v) ==
    CASE scope = "session" -> [F EXCEPT !.context.session_cache = CacheInsert(@, cache_key, v)]
      [] scope = "package" -> [F EXCEPT !.context.package_cache = CacheInsert(@, cache_key, v)]
      [] scope = "class" -> [F EXCEPT !.context.class_cache = CacheInsert(@, cache_key, v)]
      [] OTHER -> [F EXCEPT !.context.module_cache = CacheInsert(@, cache_key, v)]

\* The match on fixture.scope that stores the value in a cache layer.
StoreInCache(F, scope, cache_key, v) ==
    CASE scope = "session" -> [F EXCEPT !.context.session_cache = CacheInsert(@, cache_key, v)]
      [] scope = "package" -> [F EXCEPT !.context.package_cache = CacheInsert(@, cache_key, v)]
      [] scope = "module" -> [F EXCEPT !.context.module_cache = CacheInsert(@, cache_key, v)]
      [] scope = "class" -> [F EXCEPT !.context.class_cache = CacheInsert(@, cache_key, v)]
      [] scope = "function" -> [F EXCEPT !.resolver.function_cache = CacheInsert(@, cache_key, v)]

\* A generator object held on a teardown list.
Generator(fixture, file, inv, loop, args) ==
    [name |-> fixture.name, file |-> file, inv |-> inv, scope |-> fixture.scope,
     is_async_gen |-> fixture.is_async_generator, loop |-> loop, args |-> args]

\* Invoke the fixture callable and, by flavour, advance the generator or
\* await the coroutine.  Every flavour runs the body of the fixture up to
\* its yield or return, where it may raise.
ExecuteFixture(F, fixture, cache_key, args) ==
    LET file == F.py.cur_file
        inv == F.py.next_inv
        F0 == [F EXCEPT !.py.next_inv = @ + 1]
        raises == RaisesAt("setup", file, fixture.name)
        v == Value("fixture", fixture.name, file, inv, None)
        argInvs == {args[i].inv : i \in {j \in 1..Len(args) : args[j].tag = "fixture"}}
    IN IF fixture.is_async_generator
       THEN LET g == get_or_create_event_loop(F0, F0.resolver.test_loop_scope)
                F1 == LogArgs(g.F, "setup", fixture.name, cache_key, fixture.scope, inv, g.loop, ~raises, args)
            IN IF raises THEN Err(F1, RaisedAt("setup", file, fixture.name))
               ELSE Ok(PushTeardown(F1, fixture.scope, Generator(fixture, file, inv, g.loop, argInvs)), v)
       ELSE IF fixture.is_generator
       THEN LET F1 == LogArgs(F0, "setup", fixture.name, cache_key, fixture.scope, inv, 0, ~raises, args)
            IN IF raises THEN Err(F1, RaisedAt("setup", file, fixture.name))
               ELSE Ok(PushTeardown(F1, fixture.scope, Generator(fixture, file, inv, 0, argInvs)), v)
       ELSE IF fixture.is_async
       THEN LET g == get_or_create_event_loop(F0, F0.resolver.test_loop_scope)
                F1 == LogArgs(g.F, "setup", fixture.name, cache_key, fixture.scope, inv, g.loop, ~raises, args)
            IN IF raises THEN Err(F1, RaisedAt("setup", file, fixture.name)) ELSE Ok(F1, v)
       ELSE LET F1 == LogArgs(F0, "setup", fixture.name, cache_key, fixture.scope, inv, 0, ~raises, args)
            IN IF raises THEN Err(F1, RaisedAt("setup", file, fixture.name)) ELSE Ok(F1, v)

RECURSIVE resolve_argument(_, _, _)
RECURSIVE resolve_dependencies(_, _, _, _, _)

\* The loop that resolves fixture.parameters in order, stopping at the
\* first error.
\* The `?` on the result r of resolving parameters[i], then the next one.
resolve_dependencies_next(r, parameters, i, args, depth) ==
    IF r.ok THEN resolve_dependencies(r.F, parameters, i + 1, Append(args, r.val), depth)
    ELSE [F |-> r.F, ok |-> FALSE, args |-> args, err |-> r.err]

resolve_dependencies(F, parameters, i, args, depth) ==
    IF i > Len(parameters) THEN [F |-> F, ok |-> TRUE, args |-> args, err |-> <<>>]
    ELSE resolve_dependencies_next(resolve_argument(F, parameters[i], depth),
                                   parameters, i, args, depth)

\* An end of resolve_argument that stores under the cache key also when
\* the fixture callable raised: what a later request finds in the layer.
StoreExecuted_caching_failure(x, fixture, cache_key, previous_param) ==
    LET F == [x.F EXCEPT !.resolver.stack = @ \ {fixture.name},
                         !.resolver.current_fixture_param = previous_param]
        v == Value("fixture", fixture.name, x.F.py.cur_file, x.F.py.next_inv - 1, None)
    IN IF x.ok THEN Ok(StoreInCache(F, fixture.scope, cache_key, x.val), x.val)
       ELSE [x EXCEPT !.F = StoreInCache(F, fixture.scope, cache_key, v)]

\* An end of resolve_argument that leaves the parameter value of the
\* fixture in place.
StoreExecuted_param_not_restored(x, fixture, cache_key, previous_param) ==
    IF ~x.ok THEN x
    ELSE Ok(StoreInCache([x.F EXCEPT !.resolver.stack = @ \ {fixture.name}],
                         fixture.scope, cache_key, x.val), x.val)

\* The end of resolve_argument on the result x of executing the fixture:
\* the stack entry is removed, the previous parameter value restored and
\* the value stored by scope.
StoreExecuted(x, fixture, cache_key, previous_param) ==
    IF ~x.ok THEN x
    ELSE Ok(StoreInCache([x.F EXCEPT !.resolver.stack = @ \ {fixture.name},
                                     !.resolver.current_fixture_param = previous_param],
                         fixture.scope, cache_key, x.val), x.val)

\* The `?` on the resolved dependencies deps, then the execution.
ExecuteResolved(deps, fixture, cache_key, previous_param) ==
    IF ~deps.ok THEN Err(deps.F, deps.err)
    ELSE StoreExecuted(ExecuteFixture(deps.F, fixture, cache_key, deps.args),
                       fixture, cache_key, previous_param)

resolve_argument(F, name, depth) ==
    LET R == F.resolver IN
    IF depth > MaxDepth
    THEN Err([F EXCEPT !.py.crashed = TRUE], <<"StackOverflow">>)
    ELSE IF name \in DOMAIN R.parameters
    THEN IF name \in Range(R.indirect_params)
         THEN resolve_argument(F, R.parameters[name], depth + 1)
         ELSE Ok(F, Literal(R.parameters[name]))
    ELSE IF name = "request" THEN create_request_fixture(F)
    ELSE
    LET fx == FixtureGet(R.fixtures, name)
        parametrized == name \in DOMAIN R.fixture_param_indices /\ IsSome(fx)
                        /\ Unwrap(fx).nparams > 0
        cache_key == IF parametrized THEN KeyIdx(name, R.fixture_param_indices[name])
                     ELSE Key(name)
        param_value == IF parametrized
                       THEN Some(ParamValue(name, R.fixture_param_indices[name]))
                       ELSE None
        hit == CacheProbe(F, cache_key)
    IN IF IsSome(hit) THEN Ok(F, Unwrap(hit))
       ELSE IF ~IsSome(fx) THEN Err(F, <<"UnknownFixture", name>>)
       ELSE
       LET fixture == Unwrap(fx)
           previous_param == R.current_fixture_param
           F1 == [F EXCEPT !.resolver.current_fixture_param = param_value]
       IN IF fixture.name \in F1.resolver.stack
          THEN Err(F1, <<"RecursiveDependency", fixture.name>>)
          ELSE
          LET F2 == [F1 EXCEPT !.resolver.stack = @ \cup {fixture.name}]
              mismatch == validate_dependencies(R.fixtures, fixture, 1)
          IN IF IsSome(mismatch) THEN Err(F2, Unwrap(mismatch))
             ELSE
             ExecuteResolved(resolve_dependencies(F2, fixture.parameters, 1, <<>>, depth + 1),
                             fixture, cache_key, previous_param)

\* AutouseApplies without the comparison of the classes.
AutouseApplies_any_class(fixture, test_class_name) == fixture.autouse

\* The filter of resolve_autouse_fixtures: the autouse fixtures that apply
\* to a test of class test_class_name, in registry order.
AutouseApplies(fixture, test_class_name) ==
    /\ fixture.autouse
    /\ IF IsSome(fixture.class_name)
       THEN IsSome(test_class_name) /\ Unwrap(fixture.class_name) = Unwrap(test_class_name)
       ELSE TRUE

\* The applicable autouse fixtures taken from the end of the registry.
RECURSIVE AutouseNames_reversed(_, _, _)
AutouseNames_reversed(fixtures, test_class_name, i) ==
    IF i > Len(fixtures) THEN <<>>
    ELSE IF AutouseApplies(fixtures[i], test_class_name)
         THEN AutouseNames_reversed(fixtures, test_class_name, i + 1) \o <<fixtures[i].name>>
         ELSE AutouseNames_reversed(fixtures, test_class_name, i + 1)

RECURSIVE AutouseNames(_, _, _)
AutouseNames(fixtures, test_class_name, i) ==
    IF i > Len(fixtures) THEN <<>>
    ELSE IF AutouseApplies(fixtures[i], test_class_name)
         THEN <<fixtures[i].name>> \o AutouseNames(fixtures, test_class_name, i + 1)
         ELSE AutouseNames(fixtures, test_class_name, i + 1)

\* contains_key(&name) on the five layers
InAnyCache(F, name) ==
    \/ Key(name) \in DOMAIN F.resolver.function_cache
    \/ Key(name) \in DOMAIN F.context.class_cache
    \/ Key(name) \in DOMAIN F.context.module_cache
    \/ Key(name) \in DOMAIN F.context.package_cache
    \/ Key(name) \in DOMAIN F.context.session_cache

\* Resolve names one after the other, skipping those already cached,
\* stopping at the first error.  how is "autouse" or "usefixtures".
RECURSIVE ResolveNames(_, _, _, _)

\* The `?` on the result r of resolving names[i], then the next name.
ResolveNamesNext(r, names, i, how) ==
    IF r.ok THEN ResolveNames(r.F, names, i + 1, how) ELSE r

ResolveNames(F, names, i, how) ==
    IF i > Len(names) THEN Ok(F, NoValue)
    ELSE LET F1 == Log(F, how, names[i], NoKey, "", 0, 0, TRUE)
         IN IF InAnyCache(F1, names[i]) THEN ResolveNames(F1, names, i + 1, how)
            ELSE ResolveNamesNext(resolve_argument(F1, names[i], 1), names, i, how)

resolve_autouse_fixtures(F) ==
    ResolveNames(F, AutouseNames(F.resolver.fixtures, F.resolver.test_class_name, 1), 1, "autouse")

\* The positional args of every usefixtures mark, in order.
RECURSIVE UsefixturesNames(_, _)
UsefixturesNames(marks, i) ==
    IF i > Len(marks) THEN <<>>
    ELSE IF marks[i].name = "usefixtures"
         THEN marks[i].args \o UsefixturesNames(marks, i + 1)
         ELSE UsefixturesNames(marks, i + 1)

resolve_usefixtures_marks(F, marks) ==
    ResolveNames(F, UsefixturesNames(marks, 1), 1, "usefixtures")

\* A drain that stops at the first teardown that raises.
RECURSIVE FinalizeEach_stop_on_error(_, _, _)
FinalizeEach_stop_on_error(F, generators, event_loop) ==
    IF generators = <<>> THEN F
    ELSE LET generator == Head(generators)
             ok == ~Raises("teardown", generator.file, generator.name)
             loop == IF generator.is_async_gen /\ IsSome(event_loop) THEN Unwrap(event_loop) ELSE 0
             F1 == Log(F, "teardown", generator.name, NoKey, generator.scope, generator.inv, loop, ok)
         IN IF ok THEN FinalizeEach_stop_on_error(F1, Tail(generators), event_loop) ELSE F1

\* ------------------------------------------------------------------------
\* Teardown and loop release
\* ------------------------------------------------------------------------
\* The body of the loop of finalize_generators, on the generators in the
\* order given: a generator that raises is logged and the loop goes on.  An
\* async generator is advanced on event_loop, or by asyncio.run (a loop of
\* its own) when event_loop is None.
RECURSIVE FinalizeEach(_, _, _)
FinalizeEach(F, generators, event_loop) ==
    IF generators = <<>> THEN F
    ELSE LET generator == Head(generators)
             rest == Tail(generators)
             ok == ~Raises("teardown", generator.file, generator.name)
         IN IF generator.is_async_gen
            THEN IF IsSome(event_loop)
                 THEN IF Unwrap(event_loop) \in F.py.closed
                      THEN FinalizeEach(
                               Log(F, "teardown_not_run", generator.name, NoKey, generator.scope,
                                   generator.inv, Unwrap(event_loop), FALSE), rest, event_loop)
                      ELSE FinalizeEach(
                               Log(F, "teardown", generator.name, NoKey, generator.scope,
                                   generator.inv, Unwrap(event_loop), ok), rest, event_loop)
                 ELSE LET n == new_event_loop(F, "run")
                          F1 == Log(n.F, "teardown", generator.name, NoKey, generator.scope,
                                    generator.inv, n.loop, ok)
                          F2 == [F1 EXCEPT !.py.closed = @ \cup {n.loop}, !.py.current_loop = None]
                      IN FinalizeEach(Log(F2, "loop_close", "", NoKey, "run", 0, n.loop, TRUE),
                                      rest, event_loop)
            ELSE FinalizeEach(
                     Log(F, "teardown", generator.name, NoKey, generator.scope,
                         generator.inv, 0, ok), rest, event_loop)

\* finalize_generators without the reversal of the list.
finalize_generators_forward(F, generators, event_loop) ==
    FinalizeEach(F, generators, event_loop)

\* Runs the generators in reverse order:
\* for generator in generators.drain(..).rev()
finalize_generators(F, generators, event_loop) ==
    FinalizeEach(F, Reverse(generators), event_loop)

\* finalize_generators on the teardown list of a scope (which it drains),
\* with the loop of the scope's slot.
FinalizeScope(F, scope) ==
    CASE scope = "session" ->
            [finalize_generators(F, F.context.teardowns.session, F.context.session_event_loop)
                EXCEPT !.context.teardowns.session = <<>>]
      [] scope = "package" ->
            [finalize_generators(F, F.context.teardowns.package, F.context.package_event_loop)
                EXCEPT !.context.teardowns.package = <<>>]
      [] scope = "module" ->
            [finalize_generators(F, F.context.teardowns.module, F.context.module_event_loop)
                EXCEPT !.context.teardowns.module = <<>>]
      [] scope = "class" ->
            [finalize_generators(F, F.context.teardowns.class, F.context.class_event_loop)
                EXCEPT !.context.teardowns.class = <<>>]
      [] scope = "function" ->
            [finalize_generators(F, F.resolver.function_teardowns, F.resolver.function_event_loop)
                EXCEPT !.resolver.function_teardowns = <<>>]

\* Takes the loop out of the slot and closes it unless it is closed already.
close_event_loop(F, scope) ==
    LET event_loop == LoopSlot(F, scope)
        F1 == SetLoopSlot(F, scope, None)
    IN IF IsSome(event_loop) /\ Unwrap(event_loop) \notin F.py.closed
       THEN Log([F1 EXCEPT !.py.closed = @ \cup {Unwrap(event_loop)}],
                "loop_close", "", NoKey, scope, 0, Unwrap(event_loop), TRUE)
       ELSE F1

\* ------------------------------------------------------------------------
\* Loop-scope inference
\* ------------------------------------------------------------------------
\* The string of a loop_scope keyword as a FixtureScope; any other string
\* is Function.
LoopScopeOfString(str) ==
    CASE str = "session" -> "session"
      [] str = "package" -> "package"
      [] str = "module" -> "module"
      [] str = "class" -> "class"
      [] OTHER -> "function"

\* The first asyncio mark decides: its loop_scope keyword, or None.
RECURSIVE ExplicitFromMarks(_, _)
ExplicitFromMarks(marks, i) ==
    IF i > Len(marks) THEN None
    ELSE IF marks[i].name = "asyncio"
         THEN IF IsSome(marks[i].loop_scope)
              THEN Some(LoopScopeOfString(Unwrap(marks[i].loop_scope)))
              ELSE None
         ELSE ExplicitFromMarks(marks, i + 1)

get_explicit_loop_scope_from_marks(test_case) == ExplicitFromMarks(test_case.marks, 1)

\* acc = [widest_scope, visited]
RECURSIVE analyze_fixture_scope(_, _, _)
RECURSIVE AnalyzeAll(_, _, _, _)

analyze_fixture_scope(fixtures, fixture_name, acc) ==
    IF fixture_name \in acc.visited THEN acc
    ELSE LET acc1 == [acc EXCEPT !.visited = @ \cup {fixture_name}]
             fx == FixtureGet(fixtures, fixture_name)
         IN IF ~IsSome(fx) THEN acc1
            ELSE LET fixture == Unwrap(fx)
                     acc2 == IF (fixture.is_async \/ fixture.is_async_generator)
                                /\ is_scope_wider(fixture.scope, acc1.widest_scope)
                             THEN [acc1 EXCEPT !.widest_scope = fixture.scope]
                             ELSE acc1
                 IN AnalyzeAll(fixtures, fixture.parameters, 1, acc2)

AnalyzeAll(fixtures, names, i, acc) ==
    IF i > Len(names) THEN acc
    ELSE AnalyzeAll(fixtures, names, i + 1, analyze_fixture_scope(fixtures, names[i], acc))

detect_required_loop_scope_from_fixtures(fixtures, test_params, test_case) ==
    LET acc0 == [widest_scope |-> "function", visited |-> {}]
        acc1 == AnalyzeAll(fixtures, test_params, 1, acc0)
        acc2 == AnalyzeAll(fixtures, UsefixturesNames(test_case.marks, 1), 1, acc1)
        acc3 == AnalyzeAll(fixtures, AutouseNames(fixtures, test_case.class_name, 1), 1, acc2)
    IN acc3.widest_scope

\* Some(diagnostic) when the explicit loop scope is narrower than required.
validate_loop_scope_compatibility(test_case, fixtures) ==
    LET explicit_scope == get_explicit_loop_scope_from_marks(test_case)
        required_scope == detect_required_loop_scope_from_fixtures(
                              fixtures, test_case.parameters, test_case)
    IN IF ~IsSome(explicit_scope) THEN None
       ELSE IF is_scope_wider(required_scope, Unwrap(explicit_scope))
            THEN Some(<<"LoopScopeMismatch", test_case.name, Unwrap(explicit_scope), required_scope>>)
            ELSE None

determine_test_loop_scope(test_case, fixtures) ==
    LET explicit_scope == get_explicit_loop_scope_from_marks(test_case)
    IN IF IsSome(explicit_scope) THEN Unwrap(explicit_scope)
       ELSE detect_required_loop_scope_from_fixtures(fixtures, test_case.parameters, test_case)

can_async_test_be_gathered(fixtures, test_case) ==
    LET explicit_scope == get_explicit_loop_scope_from_marks(test_case)
        required_scope == detect_required_loop_scope_from_fixtures(
                              fixtures, test_case.parameters, test_case)
    IN IF IsSome(explicit_scope) /\ Unwrap(explicit_scope) \notin {"module", "class"}
       THEN FALSE
       ELSE required_scope \in {"function", "module", "class"}

\* ------------------------------------------------------------------------
\* Test executor
\* ------------------------------------------------------------------------
FileOf(module) == module.path[Len(module.path)]
TestId(module, test_case) == <<FileOf(module), test_case.name>>
NoTest == <<>>

\* The loop over test_case.parameters that builds call_args.
RECURSIVE ResolveCallArgs(_, _, _, _)
\* The `?` on the result r of resolving parameters[i], then the next one.
ResolveCallArgsNext(r, parameters, i, call_args) ==
    IF r.ok THEN ResolveCallArgs(r.F, parameters, i + 1, Append(call_args, r.val))
    ELSE [F |-> r.F, ok |-> FALSE, args |-> call_args, err |-> r.err]

ResolveCallArgs(F, parameters, i, call_args) ==
    IF i > Len(parameters) THEN [F |-> F, ok |-> TRUE, args |-> call_args, err |-> <<>>]
    ELSE ResolveCallArgsNext(resolve_argument(F, parameters[i], 1), parameters, i, call_args)

\* The error the test body ends with, if any.
TestBodyError(file, test_case) ==
    IF Raises("test", file, test_case.name) THEN Some(<<"Raised", test_case.name>>)
    ELSE IF Raises("skip", file, test_case.name) THEN Some(<<"Skipped", test_case.name>>)
    ELSE None

\* The closure handed to call_with_capture: call the test; if the result
\* is a coroutine run it on the loop of the test's loop scope.
CallTest(F, test_case, call_args) ==
    LET file == F.py.cur_file
        inv == F.py.next_inv
        F0 == [F EXCEPT !.py.next_inv = @ + 1]
        body == TestBodyError(file, test_case)
    IN IF test_case.is_async
       THEN IF RaisesAt("call", file, test_case.name)
            THEN Err(LogArgs(F0, "test_call", test_case.name, NoKey, F.resolver.test_loop_scope,
                             inv, 0, FALSE, call_args), RaisedAt("call", file, test_case.name))
            ELSE LET g == get_or_create_test_event_loop(F0)
                     F1 == LogArgs(g.F, "test", test_case.name, NoKey, F.resolver.test_loop_scope,
                                   inv, g.loop, ~IsSome(body), call_args)
                 IN IF IsSome(body) THEN Err(F1, Unwrap(body)) ELSE Ok(F1, NoValue)
       ELSE LET F1 == LogArgs(F0, "test", test_case.name, NoKey, F.resolver.test_loop_scope,
                              inv, 0, ~IsSome(body), call_args)
            IN IF IsSome(body) THEN Err(F1, Unwrap(body)) ELSE Ok(F1, NoValue)

\* The end of execute_test_case after the call: the function-scoped
\* teardowns run and the function loop is closed.
FinalizeFunction(call_result) ==
    [call_result EXCEPT !.F = close_event_loop(FinalizeScope(@, "function"), "function")]

\* The call of the test with the resolved arguments c; an error in them
\* returns at once.
CallWithArgs(c, test_case) ==
    IF ~c.ok THEN Err(c.F, c.err)
    ELSE FinalizeFunction(CallTest(c.F, test_case, c.args))

\* The steps after resolve_usefixtures_marks yielded u.
AfterUsefixtures(u, test_case) ==
    IF ~u.ok THEN u
    ELSE CallWithArgs(ResolveCallArgs(u.F, test_case.parameters, 1, <<>>), test_case)

\* The steps after resolve_autouse_fixtures yielded a.
AfterAutouse(a, test_case) ==
    IF ~a.ok THEN a
    ELSE AfterUsefixtures(resolve_usefixtures_marks(a.F, test_case.marks), test_case)

\* F comes with context and py; the resolver is created here and dropped
\* at the end.  Yields [F, ok, err].
execute_test_case(F, module, test_case) ==
    LET mismatch == validate_loop_scope_compatibility(test_case, module.fixtures)
    IN IF IsSome(mismatch) THEN Err(F, Unwrap(mismatch))
       ELSE AfterAutouse(
                resolve_autouse_fixtures(
                    [F EXCEPT !.resolver =
                        FixtureResolver_new(module.fixtures, test_case,
                            determine_test_loop_scope(test_case, module.fixtures))]),
                test_case)

PyTestResult(module, test_case, status, message) ==
    [unique_id |-> TestId(module, test_case), status |-> status, message |-> message]

is_skip_exception(message) == message[1] = "Skipped"

\* The match on the outcome of execute_test_case.
ResultOfOutcome(outcome, module, test_case) ==
    [F |-> outcome.F,
     result |-> IF outcome.ok THEN PyTestResult(module, test_case, "passed", <<>>)
                ELSE IF is_skip_exception(outcome.err)
                     THEN PyTestResult(module, test_case, "skipped", outcome.err)
                     ELSE PyTestResult(module, test_case, "failed", outcome.err)]

\* run_single_test without the early return on skip_reason.
run_single_test_ignoring_skip_reason(F, module, test_case) ==
    ResultOfOutcome(execute_test_case(F, module, test_case), module, test_case)

\* Yields [F, result].
run_single_test(F, module, test_case) ==
    IF IsSome(test_case.skip_reason)
    THEN [F |-> F, result |-> PyTestResult(module, test_case, "skipped",
                                           <<"SkipReason", Unwrap(test_case.skip_reason)>>)]
    ELSE ResultOfOutcome(execute_test_case(F, module, test_case), module, test_case)

\* ------------------------------------------------------------------------
\* Batch scheduler
\* ------------------------------------------------------------------------
\* An error while preparing: a failed result, and the next test.
PrepareFailed(acc, module, test_case, F, message) ==
    [acc EXCEPT !.F = F,
                !.error_results = Append(@, PyTestResult(module, test_case, "failed", message))]

\* The call of the test function on the resolved arguments: it yields
\* the coroutine, which is kept with the test's function teardowns.
PrepareCall(acc, module, test_case, event_loop, F, inv, raises, args) ==
    IF raises
    THEN PrepareFailed(acc, module, test_case,
                       finalize_generators(F, F.resolver.function_teardowns, Some(event_loop)),
                       RaisedAt("call", F.py.cur_file, test_case.name))
    ELSE [acc EXCEPT !.F = F,
                     !.prepared = Append(@, [test_case |-> test_case, inv |-> inv,
                                             args |-> args,
                                             function_teardowns |->
                                                 F.resolver.function_teardowns])]

PrepareWithArgs(acc, module, test_case, event_loop, c) ==
    IF ~c.ok THEN PrepareFailed(acc, module, test_case, c.F, c.err)
    ELSE LET raises == RaisesAt("call", c.F.py.cur_file, test_case.name)
         IN PrepareCall(acc, module, test_case, event_loop,
                        LogArgs([c.F EXCEPT !.py.next_inv = @ + 1], "test_call", test_case.name,
                                NoKey, "module", c.F.py.next_inv, 0, ~raises, c.args),
                        c.F.py.next_inv, raises, c.args)

PrepareAfterUsefixtures(acc, module, test_case, event_loop, u) ==
    IF ~u.ok THEN PrepareFailed(acc, module, test_case, u.F, u.err)
    ELSE PrepareWithArgs(acc, module, test_case, event_loop,
                         ResolveCallArgs(u.F, test_case.parameters, 1, <<>>))

PrepareAfterAutouse(acc, module, test_case, event_loop, a) ==
    IF ~a.ok THEN PrepareFailed(acc, module, test_case, a.F, a.err)
    ELSE PrepareAfterUsefixtures(acc, module, test_case, event_loop,
                                 resolve_usefixtures_marks(a.F, test_case.marks))

\* The preparation of one test of the batch; acc = [F, prepared,
\* skip_results, error_results]; event_loop is the loop of the batch.
PrepareGathered(acc, module, test_case, event_loop) ==
    LET F == [acc.F EXCEPT !.py.cur_test = TestId(module, test_case)]
        mismatch == validate_loop_scope_compatibility(test_case, module.fixtures)
    IN IF IsSome(test_case.skip_reason)
       THEN [acc EXCEPT !.skip_results =
                Append(@, PyTestResult(module, test_case, "skipped",
                                       <<"SkipReason", Unwrap(test_case.skip_reason)>>))]
       ELSE IF IsSome(mismatch) THEN PrepareFailed(acc, module, test_case, F, Unwrap(mismatch))
       ELSE PrepareAfterAutouse(acc, module, test_case, event_loop,
                resolve_autouse_fixtures(
                    [F EXCEPT !.resolver =
                        FixtureResolver_new(module.fixtures, test_case, "module")]))

\* A preparation loop that a failed preparation ends.
RECURSIVE PrepareAll_stop_on_error(_, _, _, _, _)
PrepareAll_stop_on_error(acc, module, tests, i, event_loop) ==
    IF i > Len(tests) \/ acc.error_results # <<>> THEN acc
    ELSE PrepareAll_stop_on_error(PrepareGathered(acc, module, tests[i], event_loop),
                                  module, tests, i + 1, event_loop)

\* The loop over the tests of the batch: a failed preparation is recorded
\* and the loop continues with the next test.
RECURSIVE PrepareAll(_, _, _, _, _)
PrepareAll(acc, module, tests, i, event_loop) ==
    IF i > Len(tests) THEN acc
    ELSE PrepareAll(PrepareGathered(acc, module, tests[i], event_loop),
                    module, tests, i + 1, event_loop)

\* run_until_complete(gather(*coroutines, return_exceptions=True)): every
\* coroutine runs on the loop of the batch, in the order it was submitted.
RECURSIVE RunGather(_, _, _, _, _)
RunGather(F, module, prepared, i, event_loop) ==
    IF i > Len(prepared) THEN F
    ELSE LET p == prepared[i]
             F1 == [F EXCEPT !.py.cur_test = TestId(module, p.test_case)]
             body == TestBodyError(F.py.cur_file, p.test_case)
         IN RunGather(LogArgs(F1, "test", p.test_case.name, NoKey, "module", p.inv,
                              event_loop, ~IsSome(body), p.args),
                      module, prepared, i + 1, event_loop)

\* The loop that maps the gathered values back to results and runs the
\* function teardowns of each prepared test.
RECURSIVE MapGathered(_, _, _, _, _)
MapGathered(acc, module, prepared, i, event_loop) ==
    IF i > Len(prepared) THEN acc
    ELSE LET p == prepared[i]
             F1 == [acc.F EXCEPT !.py.cur_test = TestId(module, p.test_case)]
             body == TestBodyError(F1.py.cur_file, p.test_case)
             test_result ==
                 IF IsSome(body)
                 THEN IF is_skip_exception(Unwrap(body))
                      THEN PyTestResult(module, p.test_case, "skipped", Unwrap(body))
                      ELSE PyTestResult(module, p.test_case, "failed", Unwrap(body))
                 ELSE PyTestResult(module, p.test_case, "passed", <<>>)
             F2 == finalize_generators(F1, p.function_teardowns, Some(event_loop))
         IN MapGathered([F |-> F2, results |-> Append(acc.results, test_result)],
                        module, prepared, i + 1, event_loop)

\* The batch after the preparation prep: gather, then map the values.
GatherPrepared(prep, module, event_loop) ==
    IF prep.prepared = <<>>
    THEN [F |-> prep.F, results |-> prep.skip_results \o prep.error_results]
    ELSE MapGathered([F |-> RunGather(prep.F, module, prep.prepared, 1, event_loop),
                      results |-> prep.skip_results \o prep.error_results],
                     module, prep.prepared, 1, event_loop)

\* The batch on its fresh loop n.loop, stored as the module loop.
GatherOnLoop(n, module, tests) ==
    GatherPrepared(
        PrepareAll([F |-> [n.F EXCEPT !.context.module_event_loop = Some(n.loop)],
                    prepared |-> <<>>, skip_results |-> <<>>, error_results |-> <<>>],
                   module, tests, 1, n.loop),
        module, n.loop)

\* Yields [F, results], for a non-empty list of tests.
run_async_tests_gathered(F, module, tests) ==
    GatherOnLoop(new_event_loop(F, "module"), module, tests)

\* ------------------------------------------------------------------------
\* Run orchestrator: run_collected_tests
\* ------------------------------------------------------------------------
extract_package_name(path) == SubSeq(path, 1, Len(path) - 1)

\* tests_by_class: the class names in order of first appearance, each with
\* its tests in discovery order.
RECURSIVE ClassOrder(_, _, _)
ClassOrder(tests, i, seen) ==
    IF i > Len(tests) THEN seen
    ELSE IF tests[i].class_name \in Range(seen) THEN ClassOrder(tests, i + 1, seen)
         ELSE ClassOrder(tests, i + 1, Append(seen, tests[i].class_name))

RECURSIVE TestsOfClass(_, _, _)
TestsOfClass(tests, class_name, i) ==
    IF i > Len(tests) THEN <<>>
    ELSE IF tests[i].class_name = class_name
         THEN <<tests[i]>> \o TestsOfClass(tests, class_name, i + 1)
         ELSE TestsOfClass(tests, class_name, i + 1)

tests_by_class(module) ==
    LET classes == ClassOrder(module.tests, 1, <<>>)
    IN [g \in 1..Len(classes) |-> TestsOfClass(module.tests, classes[g], 1)]

\* The partition of the tests of a class group.
RECURSIVE Partition(_, _, _, _)
Partition(fixtures, tests, i, which) ==
    IF i > Len(tests) THEN <<>>
    ELSE LET test == tests[i]
             kind == IF test.is_async
                     THEN IF can_async_test_be_gathered(fixtures, test)
                          THEN "gatherable" ELSE "sequential"
                     ELSE "sync"
         IN IF kind = which THEN <<test>> \o Partition(fixtures, tests, i + 1, which)
            ELSE Partition(fixtures, tests, i + 1, which)

gatherable_async_tests(module, tests) == Partition(module.fixtures, tests, 1, "gatherable")
sequential_async_tests(module, tests) == Partition(module.fixtures, tests, 1, "sequential")
sync_tests(module, tests) == Partition(module.fixtures, tests, 1, "sync")

NoResolver == <<>>
Frame == [context |-> context, py |-> py, resolver |-> NoResolver]

\* A tally that leaves the skipped results out.
Counted_skipped_dropped(c, result) ==
    CASE result.status = "passed" -> [c EXCEPT !.passed = @ + 1]
      [] result.status = "failed" -> [c EXCEPT !.failed = @ + 1]
      [] result.status = "skipped" -> c
      [] OTHER -> [c EXCEPT !.failed = @ + 1]

\* The closure process_result: count, sequence of results, renderer.
Counted(c, result) ==
    CASE result.status = "passed" -> [c EXCEPT !.passed = @ + 1]
      [] result.status = "failed" -> [c EXCEPT !.failed = @ + 1]
      [] result.status = "skipped" -> [c EXCEPT !.skipped = @ + 1]
      [] OTHER -> [c EXCEPT !.failed = @ + 1]

PyRunReport(c, rs) ==
    [total |-> c.passed + c.failed + c.skipped, passed |-> c.passed,
     failed |-> c.failed, skipped |-> c.skipped, results |-> rs]

\* The unique ids of the failed results.
FailedIds(rs) == {rs[i].unique_id : i \in {j \in 1..Len(rs) : rs[j].status = "failed"}}

\* The orders a HashSet can be iterated in.
Orderings(S) == {q \in [1..Cardinality(S) -> S] : Range(q) = S}

\* serde_json::to_string_pretty of a LastFailedCache: the object with the
\* one key "failed" and the array of the ids of the set, in the order the
\* set is iterated in.
to_string_pretty(cache) == {[failed |-> q] : q \in Orderings(cache.failed)}

\* serde_json::from_str as a LastFailedCache: the array is collected into
\* a set.
from_str(content) == [failed |-> Range(content.failed)]

\* A write that keeps what the file held and adds the new ids.
write_last_failed_appending(failed_tests) ==
    {Some([failed |-> (IF IsSome(last_failed) THEN Unwrap(last_failed).failed ELSE <<>>) \o q]) :
        q \in Orderings(failed_tests)}

\* cache::write_last_failed: the contents the file can have after the
\* write; fs::write replaces what the file held.
write_last_failed(failed_tests) ==
    {Some(content) : content \in to_string_pretty([failed |-> failed_tests])}

\* cache::read_last_failed of the file: the empty set when there is no
\* file, the set of the parsed document otherwise.
read_last_failed(file) ==
    IF ~IsSome(file) THEN {} ELSE from_str(Unwrap(file)).failed

\* A tally of the ids of every result, whatever its status.
write_failed_tests_cache_every_result(run_report) ==
    write_last_failed({run_report.results[i].unique_id : i \in 1..Len(run_report.results)})

\* write_failed_tests_cache: the ids of the failed results of the report
\* are written to the last-failed file.
write_failed_tests_cache(run_report) == write_last_failed(FailedIds(run_report.results))

\* A drain on the fail-fast exit that leaves the session layer alone.
FailFastDrain_without_session(F) ==
    LET F1 == close_event_loop(FinalizeScope(F, "class"), "class")
        F2 == close_event_loop(FinalizeScope(F1, "module"), "module")
    IN close_event_loop(FinalizeScope(F2, "package"), "package")

\* A drain on the fail-fast exit that starts with the widest layer.
FailFastDrain_widest_first(F) ==
    LET F1 == close_event_loop(FinalizeScope(F, "session"), "session")
        F2 == close_event_loop(FinalizeScope(F1, "package"), "package")
        F3 == close_event_loop(FinalizeScope(F2, "module"), "module")
    IN close_event_loop(FinalizeScope(F3, "class"), "class")

\* The drain of the four layers on the fail-fast exit.
FailFastDrain(F) ==
    LET F1 == close_event_loop(FinalizeScope(F, "class"), "class")
        F2 == close_event_loop(FinalizeScope(F1, "module"), "module")
        F3 == close_event_loop(FinalizeScope(F2, "package"), "package")
    IN close_event_loop(FinalizeScope(F3, "session"), "session")

\* The class teardowns run after a sync test without a class, the class
\* cache left as it is.
ClearClassAfterPlain_keeping_cache(F) == FinalizeScope(F, "class")

\* After a sync test without a class: clear the class cache and run the
\* class teardowns.
ClearClassAfterPlain(F) ==
    FinalizeScope([F EXCEPT !.context.class_cache = EmptyCache], "class")

\* No result counts as a failure.
is_failed_never(result) == FALSE

\* let is_failed = result.status == "failed", in each of the three loops.
is_failed(result) == result.status = "failed"

\* What follows a result in each of the three loops: process_result, then
\* either the fail-fast exit, or the rest of the iteration (the reset of
\* the class layer when plain, a sync test without a class) and on to the
\* next one.
AfterResult(F, result, rest, plain) ==
    LET c == Counted(counts, result)
        rs == Append(results, result)
        ev == Append(events, <<"test_completed", result.unique_id>>)
    IN /\ counts' = c
       /\ results' = rs
       /\ pending' = rest
       /\ UNCHANGED <<modules, fail_fast, faults, mi, groups, gi>>
       /\ IF F.py.crashed
          THEN /\ pc' = "aborted"
               /\ context' = F.context
               /\ py' = [F.py EXCEPT !.cur_test = NoTest]
               /\ events' = ev
               /\ UNCHANGED <<report, last_failed, loaded>>
          ELSE IF fail_fast /\ is_failed(result)
          THEN LET D == FailFastDrain([F EXCEPT !.py.cur_test = NoTest])
               IN /\ context' = D.context
                  /\ py' = D.py
                  /\ events' = Append(ev, <<"finish_suite">>)
                  /\ report' = Some(PyRunReport(c, rs))
                  /\ last_failed' \in write_failed_tests_cache(PyRunReport(c, rs))
                  /\ UNCHANGED loaded
                  /\ pc' = "done"
          ELSE LET N == [F EXCEPT !.py.cur_test = NoTest]
                   A == IF plain THEN ClearClassAfterPlain(N) ELSE N
               IN /\ context' = A.context
                  /\ py' = A.py
                  /\ events' = ev
                  /\ UNCHANGED <<pc, report, last_failed, loaded>>

\* What follows run_single_test, which yielded r.
AfterRun(r, rest, plain) == AfterResult(r.F, r.result, rest, plain)

\* What follows run_async_tests_gathered, which yielded r: its results
\* are the async_results to iterate over.
AfterGathered(r) ==
    /\ context' = r.F.context
    /\ py' = [r.F.py EXCEPT !.cur_test = NoTest]
    /\ pending' = r.results
    /\ pc' = IF r.F.py.crashed THEN "aborted" ELSE "gather_results"

StartSuite ==
    /\ pc = "start"
    /\ events' = Append(events, <<"start_suite">>)
    /\ pc' = "module"
    /\ UNCHANGED <<modules, fail_fast, faults, context, py, mi, groups, gi, pending,
                   results, counts, report, last_failed, loaded>>

\* A package change that only moves the cursor.
PackageTransition_cursor_only(F, module_package) ==
    [F EXCEPT !.context.current_package = Some(module_package)]

\* The check for a package boundary at the top of a module: when the
\* package differs from the cursor, the package teardowns are run, the
\* package cache is cleared, the package loop is closed and the cursor
\* is moved.
PackageTransition(F, module_package) ==
    IF F.context.current_package # Some(module_package)
    THEN LET D == FinalizeScope(F, "package")
             C == [D EXCEPT !.context.package_cache = EmptyCache]
         IN [close_event_loop(C, "package")
                EXCEPT !.context.current_package = Some(module_package)]
    ELSE F

\* Top of the loop over modules: start_file, package boundary, reset of the
\* module cache and loop, grouping by class.
StartModule ==
    /\ pc = "module"
    /\ mi <= Len(modules)
    /\ LET module == modules[mi]
           module_package == extract_package_name(module.path)
           F0 == [Frame EXCEPT !.py.cur_file = FileOf(module), !.py.cur_test = NoTest]
           F1 == PackageTransition(F0, module_package)
           F2 == close_event_loop([F1 EXCEPT !.context.module_cache = EmptyCache], "module")
       IN /\ context' = F2.context
          /\ py' = F2.py
          /\ groups' = tests_by_class(module)
          /\ events' = Append(events, <<"start_file", FileOf(module)>>)
    /\ gi' = 1
    /\ pc' = "class"
    /\ pending' = <<>>
    /\ UNCHANGED <<modules, fail_fast, faults, mi, results, counts, report, last_failed, loaded>>

\* Top of the loop over class groups: reset the class cache, partition,
\* and run the gatherable async tests as one batch.
StartClass ==
    /\ pc = "class"
    /\ gi <= Len(groups)
    /\ LET module == modules[mi]
           F0 == [Frame EXCEPT !.context.class_cache = EmptyCache]
           gatherable == gatherable_async_tests(module, groups[gi])
       IN IF gatherable # <<>>
          THEN AfterGathered(run_async_tests_gathered(F0, module, gatherable))
          ELSE /\ context' = F0.context
               /\ py' = F0.py
               /\ pending' = sequential_async_tests(module, groups[gi])
               /\ pc' = "sequential"
    /\ UNCHANGED <<modules, fail_fast, faults, mi, groups, gi, results, counts, events,
                   report, last_failed, loaded>>

\* One iteration of the loop over async_results.
GatheredResult ==
    /\ pc = "gather_results"
    /\ pending # <<>>
    /\ AfterResult(Frame, Head(pending), Tail(pending), FALSE)

\* The loop over async_results is over: on to the sequential async tests.
GatheredDone ==
    /\ pc = "gather_results"
    /\ pending = <<>>
    /\ pending' = sequential_async_tests(modules[mi], groups[gi])
    /\ pc' = "sequential"
    /\ UNCHANGED <<modules, fail_fast, faults, context, py, mi, groups, gi, results, counts,
                   events, report, last_failed, loaded>>

\* One iteration of the loop over sequential_async_tests.
RunSequentialAsync ==
    /\ pc = "sequential"
    /\ pending # <<>>
    /\ LET module == modules[mi]
           test == Head(pending)
       IN AfterRun(run_single_test([Frame EXCEPT !.py.cur_test = TestId(module, test)],
                                   module, test),
                   Tail(pending), FALSE)

SequentialDone ==
    /\ pc = "sequential"
    /\ pending = <<>>
    /\ pending' = sync_tests(modules[mi], groups[gi])
    /\ pc' = "sync"
    /\ UNCHANGED <<modules, fail_fast, faults, context, py, mi, groups, gi, results, counts,
                   events, report, last_failed, loaded>>

\* One iteration of the loop over sync_tests.
RunSync ==
    /\ pc = "sync"
    /\ pending # <<>>
    /\ LET module == modules[mi]
           test == Head(pending)
       IN AfterRun(run_single_test([Frame EXCEPT !.py.cur_test = TestId(module, test)],
                                   module, test),
                   Tail(pending), ~IsSome(test.class_name))

\* End of the iteration for a class group: class teardowns, class loop.
EndClass ==
    /\ pc = "sync"
    /\ pending = <<>>
    /\ LET F == close_event_loop(FinalizeScope(Frame, "class"), "class")
       IN /\ context' = F.context
          /\ py' = F.py
    /\ gi' = gi + 1
    /\ pc' = "class"
    /\ UNCHANGED <<modules, fail_fast, faults, mi, groups, pending, results, counts, events,
                   report, last_failed, loaded>>

\* End of the iteration for a module: module teardowns, file_completed.
EndModule ==
    /\ pc = "class"
    /\ gi > Len(groups)
    /\ LET F == FinalizeScope(Frame, "module")
       IN /\ context' = F.context
          /\ py' = [F.py EXCEPT !.cur_file = ""]
    /\ events' = Append(events, <<"file_completed", FileOf(modules[mi])>>)
    /\ mi' = mi + 1
    /\ pc' = "module"
    /\ UNCHANGED <<modules, fail_fast, faults, groups, gi, pending, results, counts,
                   report, last_failed, loaded>>

\* After the last module: package and session teardowns, summary, report,
\* last-failed cache.
FinishRun ==
    /\ pc = "module"
    /\ mi > Len(modules)
    /\ LET F1 == close_event_loop(FinalizeScope(Frame, "package"), "package")
           F2 == close_event_loop(FinalizeScope(F1, "session"), "session")
       IN /\ context' = F2.context
          /\ py' = F2.py
    /\ events' = Append(events, <<"finish_suite">>)
    /\ report' = Some(PyRunReport(counts, results))
    /\ last_failed' \in write_failed_tests_cache(PyRunReport(counts, results))
    /\ UNCHANGED loaded
    /\ pc' = "done"
    /\ UNCHANGED <<modules, fail_fast, faults, mi, groups, gi, pending, results, counts>>

\* After the run: the last-failed file is read back, as the collector of
\* the next run does.
ReadLastFailed ==
    /\ pc = "done"
    /\ loaded' = Some(read_last_failed(last_failed))
    /\ pc' = "read"
    /\ UNCHANGED <<modules, fail_fast, faults, context, py, mi, groups, gi, pending, results,
                   counts, events, report, last_failed>>

\* ------------------------------------------------------------------------
\* The inputs: collected modules
\* ------------------------------------------------------------------------
Map1(k, v) == [x \in {k} |-> v]
Map2(k1, v1, k2, v2) == [x \in {k1, k2} |-> IF x = k1 THEN v1 ELSE v2]

\* Scope ordering: a fixture (big) of any scope depending on a class-scoped
\* one, behind a function-scoped generator; fine depends on it in order.
ScopeModule(big_scope) ==
    TestModule(<<"pkg_a", "test_scope.py">>,
        << Fixture("small", <<>>, "class", "plain", FALSE, None, 0),
           Fixture("a", <<>>, "function", "generator", FALSE, None, 0),
           Fixture("big", <<"request", "small">>, big_scope, "plain", FALSE, None, 0),
           Fixture("mid", <<"a", "big">>, "function", "plain", FALSE, None, 0),
           Fixture("fine", <<"small">>, "function", "plain", FALSE, None, 0) >>,
        << SyncTest("test_big", None, <<"a", "big">>),
           SyncTest("test_mid", None, <<"mid">>),
           SyncTest("test_ok", None, <<"a", "fine">>) >>)

\* Generator fixtures of several scopes, shared by tests in and out of a class.
GeneratorModule ==
    TestModule(<<"pkg_a", "test_gen.py">>,
        << Fixture("a", <<>>, "function", "generator", FALSE, None, 0),
           Fixture("b", <<"a">>, "function", "generator", FALSE, None, 0),
           Fixture("m", <<>>, "module", "generator", FALSE, None, 0),
           Fixture("c", <<"m">>, "class", "generator", FALSE, None, 0),
           Fixture("s", <<>>, "session", "generator", FALSE, None, 0),
           Fixture("k", <<"c", "s">>, "class", "generator", FALSE, None, 0) >>,
        << SyncTest("test_one", None, <<"b", "m">>),
           SyncTest("test_two", Some("K"), <<"k">>),
           SyncTest("test_three", Some("K"), <<"c", "b">>),
           SyncTest("test_four", None, <<"m", "a">>) >>)

\* Autouse fixtures bound to a class and to the module; two tests of the
\* class, an async one and a sync one, carry a skip reason.
AutouseModule ==
    TestModule(<<"pkg_b", "test_auto.py">>,
        << Fixture("setup_db", <<>>, "class", "generator", TRUE, Some("C"), 0),
           Fixture("mod_auto", <<>>, "function", "plain", TRUE, None, 0),
           Fixture("setup_d", <<"setup_db">>, "function", "plain", TRUE, Some("D"), 0) >>,
        << SyncTest("test_in_c", Some("C"), <<>>),
           TestCase("test_wait", Some("C"), <<"mod_auto">>, NoMap, <<>>, NoMap,
                    <<Asyncio>>, TRUE, Some("later")),
           TestCase("test_off", Some("C"), <<"setup_db">>, NoMap, <<>>, NoMap,
                    <<>>, FALSE, Some("off")),
           SyncTest("test_free", None, <<>>),
           SyncTest("test_in_d", Some("D"), <<>>),
           TestCase("test_names", None, <<>>, NoMap, <<>>, NoMap,
                    <<Usefixtures(<<"setup_db">>)>>, FALSE, None) >>)

\* Async tests in two classes around one async generator fixture; the
\* scope of the fixture and the asyncio mark of the first test vary.
AsyncModule(fixture_scope, mark) ==
    TestModule(<<"pkg_b", "test_async.py">>,
        << Fixture("afx", <<>>, fixture_scope, "async_generator", FALSE, None, 0),
           Fixture("g", <<>>, "function", "generator", FALSE, None, 0) >>,
        << AsyncTest("test_a", Some("A"), <<"g", "afx">>, <<mark>>),
           AsyncTest("test_b", Some("B"), <<"afx">>, <<Asyncio>>),
           SyncTest("test_c", Some("B"), <<"afx">>) >>)

AsyncMarks == {Asyncio} \cup {AsyncioScope(sc) : sc \in Scopes}

\* An async fixture reached through an indirect parameter, and one that is
\* shadowed by a literal.
IndirectModule ==
    TestModule(<<"pkg_c", "test_ind.py">>,
        << Fixture("conn", <<>>, "session", "async", FALSE, None, 0),
           Fixture("n", <<"request">>, "module", "plain", FALSE, None, 2) >>,
        << TestCase("test_ind", None, <<"p", "n">>, Map1("p", "conn"), <<"p">>,
                    Map1("n", 0), <<AsyncioScope("function")>>, TRUE, None),
           TestCase("test_auto", None, <<"p", "n">>, Map1("p", "conn"), <<"p">>,
                    Map1("n", 1), <<Asyncio>>, TRUE, None),
           TestCase("test_lit", None, <<"conn">>, Map1("conn", "text"), <<>>,
                    NoMap, <<>>, FALSE, None) >>)

\* A module of unclassed tests that mixes the three ways a test is run: the
\* async tests test_p and test_r carry the given mark, test_q is an async
\* test discovered with a skip reason, test_s and test_t are sync. The
\* class-scoped generator fixture k is requested by several of them.
BatchModule(mark) ==
    TestModule(<<"pkg_d", "test_batch.py">>,
        << Fixture("k", <<>>, "class", "generator", FALSE, None, 0),
           Fixture("g", <<>>, "function", "generator", FALSE, None, 0),
           Fixture("h", <<>>, "function", "plain", FALSE, None, 0) >>,
        << AsyncTest("test_p", None, <<"k", "g">>, <<mark>>),
           SyncTest("test_s", None, <<"k">>),
           TestCase("test_q", None, <<"g">>, NoMap, <<>>, NoMap, <<Asyncio>>, TRUE,
                    Some("not today")),
           AsyncTest("test_r", None, <<"h", "k", "g">>, <<mark>>),
           SyncTest("test_t", None, <<"k">>) >>)

\* Three cases of one class around the parametrised fixture f of the given
\* scope: the first and the third select its variant 0, the second its
\* variant 1. f asks for the plain session fixture d, the parametrised
\* session fixture e and, last, for request; d and e ask for request too.
ParamModule(scope) ==
    TestModule(<<"pkg_e", "test_param.py">>,
        << Fixture("d", <<"request">>, "session", "plain", FALSE, None, 0),
           Fixture("e", <<"request">>, "session", "plain", FALSE, None, 2),
           Fixture("f", <<"d", "e", "request">>, scope, "plain", FALSE, None, 2) >>,
        << TestCase("test_n0", Some("P"), <<"f">>, NoMap, <<>>, Map2("f", 0, "e", 1),
                    <<>>, FALSE, None),
           TestCase("test_n1", Some("P"), <<"f">>, NoMap, <<>>, Map2("f", 1, "e", 0),
                    <<>>, FALSE, None),
           TestCase("test_n2", Some("P"), <<"f", "request">>, NoMap, <<>>,
                    Map2("f", 0, "e", 0), <<>>, FALSE, None) >>)

\* Two fixtures that depend on each other, a test whose indirect parameter
\* names its literal parameter, and a test whose two indirect parameters
\* name target and the first parameter: target is the first parameter
\* itself, the second parameter, or a fixture of the cycle.
CycleModule(target) ==
    TestModule(<<"pkg_d", "test_cycle.py">>,
        << Fixture("a", <<"b">>, "function", "plain", FALSE, None, 0),
           Fixture("b", <<"a">>, "function", "plain", FALSE, None, 0) >>,
        << SyncTest("test_cycle", None, <<"b">>),
           TestCase("test_chain", None, <<"x", "y">>, Map2("x", "y", "y", "text"), <<"x">>,
                    NoMap, <<>>, FALSE, None),
           TestCase("test_ref", None, <<"u", "v">>, Map2("u", target, "v", "u"), <<"u", "v">>,
                    NoMap, <<>>, FALSE, None) >>)

CycleTargets == {"u", "v", "a"}

Catalog ==
    {ScopeModule(sc) : sc \in Scopes}
    \cup {CycleModule(target) : target \in CycleTargets}
    \cup {GeneratorModule, AutouseModule, IndirectModule}
    \cup {AsyncModule(sc, mk) : sc \in Scopes, mk \in AsyncMarks}
    \cup {BatchModule(mk) : mk \in {Asyncio, AsyncioScope("function")}}
    \cup {ParamModule(sc) : sc \in Scopes}

\* A module of a run of several modules: the session and package fixtures
\* s and p are shared by the modules (they come from a common conftest), m
\* is the module's own.
SharedModule(package, file) ==
    TestModule(<<package, file>>,
        << Fixture("s", <<>>, "session", "generator", FALSE, None, 0),
           Fixture("p", <<"s">>, "package", "async_generator", FALSE, None, 0),
           Fixture("m", <<"p">>, "module", "async_generator", FALSE, None, 0) >>,
        << AsyncTest("test_x", None, <<"m">>, <<Asyncio>>),
           SyncTest("test_y", Some("K"), <<"p">>) >>)

SharedCatalog ==
    {SharedModule("pkg_a", "test_x.py"), SharedModule("pkg_a", "test_y.py"),
     SharedModule("pkg_b", "test_z.py")}

\* A module of the first package that registers fixtures of its own under
\* the names s and p: plain functions without dependencies.
OwnModule ==
    TestModule(<<"pkg_a", "test_own.py">>,
        << Fixture("s", <<>>, "session", "plain", FALSE, None, 0),
           Fixture("p", <<>>, "package", "plain", FALSE, None, 0) >>,
        << SyncTest("test_w", None, <<"s", "p">>) >>)

\* The runs of that module before or after a shared module of the same
\* or of another package.
OwnRuns ==
    {<<m, OwnModule>> : m \in {SharedModule("pkg_a", "test_x.py"), SharedModule("pkg_b", "test_z.py")}}
    \cup {<<OwnModule, SharedModule("pkg_a", "test_x.py")>>}

\* The modules of a run: one module of the catalog, the module with its
\* own definitions next to a shared one, or up to MaxModules of the shared
\* modules, in any order up to the exchange of test_x.py and test_y.py,
\* which differ in their name alone.
ModuleSeqs ==
    {<<m>> : m \in Catalog}
    \cup OwnRuns
    \cup {ms \in UNION {[1..n -> SharedCatalog] : n \in 2..MaxModules} :
            /\ \A i, j \in 1..Len(ms) : i # j => ms[i].path # ms[j].path
            /\ \A i, j \in 1..Len(ms) :
                   (FileOf(ms[i]) = "test_x.py" /\ FileOf(ms[j]) = "test_y.py") => i < j}

\* The modules whose callables may also raise the skip signal, and whose
\* test functions may raise when called: the batch module, whose async
\* tests run gathered under one mark and one by one under the other.
SkipSignalFiles == {"test_batch.py"}

\* The skip signals and the exceptions at the call of a test function.
SignalsOf(module) ==
    LET file == FileOf(module)
        F == module.fixtures
        T == module.tests
    IN IF file \notin SkipSignalFiles THEN {}
       ELSE {<<SkipAt("setup"), file, F[i].name>> : i \in 1..Len(F)}
            \cup {<<"skip", file, T[i].name>> : i \in 1..Len(T)}
            \cup {<<kind, file, T[i].name>> :
                     kind \in {"call", SkipAt("call")}, i \in {j \in 1..Len(T) : T[j].is_async}}

\* What may raise in the modules of a run.
FaultsOf(module) ==
    LET file == FileOf(module)
        F == module.fixtures
        T == module.tests
    IN {<<"setup", file, F[i].name>> : i \in 1..Len(F)}
       \cup {<<"teardown", file, F[i].name>> :
                i \in {j \in 1..Len(F) : F[j].is_generator \/ F[j].is_async_generator}}
       \cup {<<"test", file, T[i].name>> : i \in 1..Len(T)}
       \cup SignalsOf(module)

PossibleFaults(ms) == UNION {FaultsOf(ms[i]) : i \in 1..Len(ms)}

\* The sets of at most n of the possible faults.
RECURSIVE FaultSets(_, _)
FaultSets(possible, n) ==
    IF n = 0 THEN {{}}
    ELSE LET fewer == FaultSets(possible, n - 1)
         IN fewer \cup {fs \cup {f} : fs \in fewer, f \in possible}

\* What the cache directory holds before the run: the file an earlier run
\* wrote, or no last-failed file (taken for the runs of one module only, to
\* bound the initial states).
EarlierStores(ms) ==
    {Some(content) : content \in to_string_pretty([failed |-> {<<"test_old.py", "test_gone">>}])}
    \cup (IF Len(ms) = 1 THEN {None} ELSE {})

Init ==
    /\ modules \in ModuleSeqs
    /\ fail_fast \in BOOLEAN
    /\ faults \in FaultSets(PossibleFaults(modules), MaxFaults)
    /\ context = FixtureContext_new
    /\ py = [next_loop |-> 1, next_inv |-> 1, closed |-> {}, current_loop |-> None,
             trace |-> <<>>, cur_test |-> NoTest, cur_file |-> "", crashed |-> FALSE]
    /\ pc = "start"
    /\ mi = 1
    /\ groups = <<>>
    /\ gi = 1
    /\ pending = <<>>
    /\ results = <<>>
    /\ counts = [passed |-> 0, failed |-> 0, skipped |-> 0]
    /\ events = <<>>
    /\ report = None
    /\ last_failed \in EarlierStores(modules)
    /\ loaded = None

Next ==
    \/ StartSuite
    \/ StartModule
    \/ StartClass
    \/ GatheredResult
    \/ GatheredDone
    \/ RunSequentialAsync
    \/ SequentialDone
    \/ RunSync
    \/ EndClass
    \/ EndModule
    \/ FinishRun
    \/ ReadLastFailed

Spec == Init /\ [][Next]_vars

\* ------------------------------------------------------------------------
\* Reading the trace of the host runtime
\* ------------------------------------------------------------------------
Trace == py.trace

\* The module and the test an event or a result belongs to.
ModuleOfFile(file) == modules[CHOOSE i \in 1..Len(modules) : FileOf(modules[i]) = file]
TestOfId(id) ==
    LET T == ModuleOfFile(id[1]).tests
    IN T[CHOOSE i \in 1..Len(T) : T[i].name = id[2]]
FixtureOfEvent(e) == Unwrap(FixtureGet(ModuleOfFile(e.test[1]).fixtures, e.name))

Setups == {i \in 1..Len(Trace) : Trace[i].kind = "setup"}
CompletedSetups == {i \in Setups : Trace[i].ok}
Teardowns == {i \in 1..Len(Trace) : Trace[i].kind = "teardown"}
TestCalls == {i \in 1..Len(Trace) : Trace[i].kind \in {"test", "test_call"}}
TestRuns == {i \in 1..Len(Trace) : Trace[i].kind = "test"}

\* The registered dependencies of a fixture, the reserved name aside.
RegisteredDeps(fixtures, fixture) ==
    {Unwrap(FixtureGet(fixtures, fixture.parameters[i])) :
        i \in {j \in 1..Len(fixture.parameters) :
                 /\ fixture.parameters[j] # "request"
                 /\ IsSome(FixtureGet(fixtures, fixture.parameters[j]))}}

HasNarrowerDep(fixtures, fixture) ==
    \E d \in RegisteredDeps(fixtures, fixture) : order(d.scope) < order(fixture.scope)

\* The frame execute_test_case resolves the fixtures of a test in.
ResolverFrame(module, test_case) ==
    [Frame EXCEPT !.py.cur_test = TestId(module, test_case),
                  !.resolver = FixtureResolver_new(module.fixtures, test_case,
                                   determine_test_loop_scope(test_case, module.fixtures))]

\* The fixture names some cache layer holds a value for.
CachedNames(F) ==
    {k[1] : k \in DOMAIN F.resolver.function_cache \cup DOMAIN F.context.class_cache
                  \cup DOMAIN F.context.module_cache \cup DOMAIN F.context.package_cache
                  \cup DOMAIN F.context.session_cache}

\* A test is about to be run one-by-one.
AboutToRun == pc \in {"sequential", "sync"} /\ pending # <<>>

\* ------------------------------------------------------------------------
\* Claims
\* ------------------------------------------------------------------------

\* Every fixture whose callable was invoked has no registered dependency of
\* a narrower scope.
ConstructedRespectScopeOrder ==
    \A i \in Setups :
        ~HasNarrowerDep(ModuleOfFile(Trace[i].test[1]).fixtures, FixtureOfEvent(Trace[i]))

\* Resolving a fixture that has a registered dependency of a narrower scope
\* (the fixture is not served from a cache and not shadowed by a literal)
\* yields the ScopeMismatch error that names the fixture and one such
\* dependency.
NarrowerDependencyRefused ==
    AboutToRun =>
        LET module == modules[mi]
            test == Head(pending)
            F == ResolverFrame(module, test)
        IN \A i \in 1..Len(module.fixtures) :
              LET f == module.fixtures[i]
                  r == resolve_argument(F, f.name, 1)
              IN (/\ HasNarrowerDep(module.fixtures, f)
                  /\ f.name \notin DOMAIN test.parameter_values
                  /\ f.name \notin CachedNames(F))
                 => /\ ~r.ok
                    /\ r.err[1] = "ScopeMismatch"
                    /\ r.err[2] = f.name
                    /\ \E d \in RegisteredDeps(module.fixtures, f) :
                          d.name = r.err[3] /\ order(d.scope) < order(f.scope)

\* A result that carries the ScopeMismatch error names a fixture of the
\* module and a dependency of it whose scope is narrower.
MismatchResultsNameBoth ==
    \A i \in 1..Len(results) :
        results[i].message # <<>> /\ results[i].message[1] = "ScopeMismatch" =>
            LET fixtures == ModuleOfFile(results[i].unique_id[1]).fixtures
                fx == FixtureGet(fixtures, results[i].message[2])
            IN /\ IsSome(fx)
               /\ \E d \in RegisteredDeps(fixtures, Unwrap(fx)) :
                     d.name = results[i].message[3] /\ order(d.scope) < order(Unwrap(fx).scope)

\* C1: every constructed fixture f has scope(d) >= scope(f) for each of its
\* registered dependencies d (`request` aside), in the order function <
\* class < module < package < session; resolving a fixture with a
\* narrower-scoped dependency yields a ScopeMismatch error naming both.
ScopeOrdering ==
    /\ ConstructedRespectScopeOrder
    /\ NarrowerDependencyRefused
    /\ MismatchResultsNameBoth

\* A run in which a fixture with a registered dependency was constructed
\* and a test failed with the ScopeMismatch error.
ScopeOrderingWitness ==
    /\ \E i \in CompletedSetups :
          RegisteredDeps(ModuleOfFile(Trace[i].test[1]).fixtures, FixtureOfEvent(Trace[i])) # {}
    /\ \E i \in 1..Len(results) :
          results[i].status = "failed" /\ results[i].message[1] = "ScopeMismatch"

\* The results that carry the ScopeMismatch error.
MismatchResults ==
    {i \in 1..Len(results) :
        results[i].message # <<>> /\ results[i].message[1] = "ScopeMismatch"}

\* The events of the trace that belong to the test of a result.
EventsOfResult(i, kinds) ==
    {j \in 1..Len(Trace) : Trace[j].test = results[i].unique_id /\ Trace[j].kind \in kinds}

\* C2 as stated: a test that fails with the scope-mismatch error had no
\* fixture callable invoked on its behalf, fixtures resolved earlier for
\* the same test included.
MismatchBeforeAnyFixture ==
    \A i \in MismatchResults : EventsOfResult(i, {"setup"}) = {}

\* Resolving a fixture that has a narrower-scoped dependency invokes no
\* callable and stores nothing: the error comes before the fixture's
\* dependencies are resolved and before its own callable.
MismatchInvokesNothing ==
    AboutToRun =>
        LET module == modules[mi]
            test == Head(pending)
            F == ResolverFrame(module, test)
        IN \A i \in 1..Len(module.fixtures) :
              LET f == module.fixtures[i]
                  r == resolve_argument(F, f.name, 1)
              IN (/\ HasNarrowerDep(module.fixtures, f)
                  /\ f.name \notin DOMAIN test.parameter_values
                  /\ f.name \notin CachedNames(F))
                 => /\ ~r.ok
                    /\ r.F.py = F.py
                    /\ r.F.context = F.context
                    /\ r.F.resolver.function_cache = F.resolver.function_cache
                    /\ r.F.resolver.function_teardowns = F.resolver.function_teardowns

\* C2, amended: a test whose resolution reaches a fixture with a
\* narrower-scoped dependency fails with the scope-mismatch error before
\* that fixture's callable, before any fixture is resolved on its behalf
\* and before the test callable; the fixtures resolved earlier for the
\* same test have run.
MismatchStopsAtOffender ==
    /\ MismatchInvokesNothing
    /\ \A i \in MismatchResults :
          /\ results[i].status = "failed"
          /\ EventsOfResult(i, {"test", "test_call"}) = {}
          /\ \A j \in EventsOfResult(i, {"setup"}) : Trace[j].name # results[i].message[2]

\* A test failed with the scope-mismatch error after a fixture resolved
\* earlier for it had been set up.
MismatchStopsAtOffenderWitness ==
    \E i \in MismatchResults :
        /\ results[i].status = "failed"
        /\ \E j \in EventsOfResult(i, {"setup"}) : Trace[j].ok

\* The position in the run of the module of a file.
ModuleIndex(file) == CHOOSE i \in 1..Len(modules) : FileOf(modules[i]) = file

\* Two events of the trace are in one lifetime of a scope: one test for
\* function; one class group for class, and one test for a test without a
\* class; one module; one run of consecutive modules of a package; the
\* whole run for session.
SameLifetime(scope, i, j) ==
    LET ti == Trace[i].test
        tj == Trace[j].test
    IN CASE scope = "function" -> ti = tj
         [] scope = "class" ->
              /\ Trace[i].file = Trace[j].file
              /\ TestOfId(ti).class_name = TestOfId(tj).class_name
              /\ (IsSome(TestOfId(ti).class_name) \/ ti = tj)
         [] scope = "module" -> Trace[i].file = Trace[j].file
         [] scope = "package" ->
              \/ Trace[i].file = Trace[j].file
              \/ \A k \in ModuleIndex(Trace[i].file)..ModuleIndex(Trace[j].file) :
                  extract_package_name(modules[k].path)
                      = extract_package_name(ModuleOfFile(Trace[i].file).path)
         [] scope = "session" -> TRUE

\* Two invocations, the first before the second, of the callable behind
\* one cache key in one lifetime of its scope.
Reinvoked(i, j) ==
    /\ i < j
    /\ Trace[i].key = Trace[j].key
    /\ Trace[i].scope = Trace[j].scope
    /\ SameLifetime(Trace[i].scope, i, j)

\* C3 as stated: per cache key and lifetime of its scope the fixture
\* callable is invoked at most once.
InvokedAtMostOnce ==
    \A i, j \in Setups : ~Reinvoked(i, j)

\* C3, amended: per cache key and lifetime of its scope the fixture
\* callable completes its setup at most once and is not invoked again after
\* that, whichever tests and name sources request it; an invocation that
\* raised stored nothing, and the next request invokes the callable again.
ConstructedAtMostOnce ==
    \A i, j \in Setups : Reinvoked(i, j) => ~Trace[i].ok

\* A fixture of a scope wider than function was set up once and its value
\* was handed to two tests.
ConstructedAtMostOnceWitness ==
    \E i \in CompletedSetups :
        /\ Trace[i].scope # "function"
        /\ \E j, k \in TestRuns :
              /\ Trace[j].test # Trace[k].test
              /\ \E a \in 1..Len(Trace[j].args) : Trace[j].args[a].inv = Trace[i].inv
                                                  /\ Trace[j].args[a].tag = "fixture"
              /\ \E a \in 1..Len(Trace[k].args) : Trace[k].args[a].inv = Trace[i].inv
                                                  /\ Trace[k].args[a].tag = "fixture"

\* The teardown events of the generator that setup event i created.
TeardownsOf(i) == {t \in Teardowns : Trace[t].inv = Trace[i].inv}

\* Setups i1 and then i2 completed for two generators of one scope (of one
\* test, for function scope), the first still pending when the second was
\* set up, and t1, t2 are their teardowns.
DrainedTogether(i1, i2, t1, t2) ==
    /\ i1 < i2
    /\ Trace[i1].scope = Trace[i2].scope
    /\ Trace[i1].scope = "function" => Trace[i1].test = Trace[i2].test
    /\ t1 \in TeardownsOf(i1)
    /\ t2 \in TeardownsOf(i2)
    /\ t1 > i2

\* C4: within one scope the teardowns of generators and async generators
\* run in the reverse of the order in which their setups completed, at
\* every drain of a teardown list.
TeardownsAreLIFO ==
    LET torn_down == {i \in CompletedSetups : TeardownsOf(i) # {}}
    IN \A i1, i2 \in torn_down :
           i1 < i2 => \A t1 \in TeardownsOf(i1), t2 \in TeardownsOf(i2) :
                         DrainedTogether(i1, i2, t1, t2) => t2 < t1

\* Two generators of function scope were torn down in reverse order at the
\* end of their test, and two of a wider scope at a later drain.
TeardownsAreLIFOWitness ==
    /\ \E i1, i2 \in CompletedSetups : \E t1, t2 \in Teardowns :
          DrainedTogether(i1, i2, t1, t2) /\ t2 < t1 /\ Trace[i1].scope = "function"
    /\ \E i1, i2 \in CompletedSetups : \E t1, t2 \in Teardowns :
          DrainedTogether(i1, i2, t1, t2) /\ t2 < t1 /\ Trace[i1].scope # "function"

\* The completed setups of generator and async-generator fixtures.
GeneratorSetups ==
    {i \in CompletedSetups :
        FixtureOfEvent(Trace[i]).is_generator \/ FixtureOfEvent(Trace[i]).is_async_generator}

\* C5: every generator or async-generator fixture whose setup completed
\* has its teardown executed exactly once before the run returns: never
\* twice, and once when the run has ended, on every path.
TornDownExactlyOnce ==
    /\ \A i \in GeneratorSetups : Cardinality(TeardownsOf(i)) <= 1
    /\ pc = "done" => \A i \in GeneratorSetups : Cardinality(TeardownsOf(i)) = 1

\* What resolve_argument looks up for a name requested in a test: the name
\* itself, the target of an indirect parameter, nothing for a literal.
RECURSIVE Requested(_, _, _)
Requested(test_case, name, depth) ==
    IF depth > MaxDepth THEN {}
    ELSE IF name \in DOMAIN test_case.parameter_values
    THEN IF name \in Range(test_case.indirect_params)
         THEN Requested(test_case, test_case.parameter_values[name], depth + 1)
         ELSE {}
    ELSE {name}

\* The names a set of fixture names reaches through fixture parameters.
RECURSIVE Reach(_, _, _)
Reach(fixtures, test_case, names) ==
    LET deps == UNION {UNION {Requested(test_case, Unwrap(FixtureGet(fixtures, n)).parameters[k], 1) :
                                 k \in 1..Len(Unwrap(FixtureGet(fixtures, n)).parameters)} :
                          n \in {x \in names : IsSome(FixtureGet(fixtures, x))}}
    IN IF deps \subseteq names THEN names ELSE Reach(fixtures, test_case, names \cup deps)

\* The fixtures a test names: its parameters and its usefixtures marks,
\* with all they reach.
NamedClosure(fixtures, test_case) ==
    Reach(fixtures, test_case,
          UNION {Requested(test_case, test_case.parameters[k], 1) :
                    k \in 1..Len(test_case.parameters)}
          \cup Range(UsefixturesNames(test_case.marks, 1)))

\* The whole closure of a test: the named closure and the autouse
\* fixtures that apply to it, with all they reach.
FixtureClosure(fixtures, test_case) ==
    Reach(fixtures, test_case,
          NamedClosure(fixtures, test_case)
          \cup Range(AutouseNames(fixtures, test_case.class_name, 1)))

\* The implicit resolutions: the names resolve_autouse_fixtures iterates.
AutouseEvents == {i \in 1..Len(Trace) : Trace[i].kind = "autouse"}

\* An autouse fixture is resolved implicitly for a test only if it has no
\* class or the class of the test.
AutouseOnlyForOwnClass ==
    \A i \in AutouseEvents :
        LET f == FixtureOfEvent(Trace[i])
            t == TestOfId(Trace[i].test)
        IN f.autouse /\ (f.class_name = None \/ f.class_name = t.class_name)

\* Every test whose callable was invoked had each autouse fixture without
\* a class, and each autouse fixture of its class, resolved implicitly
\* and set up before.
AutouseForEveryTestOfClass ==
    LET autouse_events == AutouseEvents
        completed == CompletedSetups
    IN
    \A i \in TestCalls :
        LET fixtures == ModuleOfFile(Trace[i].test[1]).fixtures
            t == TestOfId(Trace[i].test)
        IN \A k \in 1..Len(fixtures) :
              (fixtures[k].autouse
                  /\ (fixtures[k].class_name = None \/ fixtures[k].class_name = t.class_name))
              => /\ \E j \in autouse_events :
                       j < i /\ Trace[j].test = Trace[i].test /\ Trace[j].name = fixtures[k].name
                 /\ \E j \in completed :
                       j < i /\ Trace[j].test[1] = Trace[i].test[1]
                             /\ Trace[j].name = fixtures[k].name

\* An autouse fixture bound to a class is not invoked for a test without
\* a class unless the test names it.
ClassAutouseNotForPlainTests ==
    \A i \in Setups :
        LET f == FixtureOfEvent(Trace[i])
            t == TestOfId(Trace[i].test)
        IN (f.autouse /\ IsSome(f.class_name) /\ t.class_name = None)
           => f.name \in NamedClosure(ModuleOfFile(Trace[i].test[1]).fixtures, t)

\* C6: an autouse fixture of class C is resolved implicitly for a test
\* if and only if the test's class is C; an autouse fixture without a
\* class for every test of its module; an autouse fixture of a class is
\* never invoked for a test without a class that does not name it.
AutouseByClass ==
    /\ AutouseOnlyForOwnClass
    /\ AutouseForEveryTestOfClass
    /\ ClassAutouseNotForPlainTests

\* A test of class C ran after the autouse fixture of C was set up for it,
\* and a test without a class ran without it.
AutouseByClassWitness ==
    /\ \E i \in TestRuns, j \in CompletedSetups, k \in AutouseEvents :
          /\ k < j /\ j < i
          /\ Trace[j].test = Trace[i].test /\ Trace[k].test = Trace[i].test
          /\ Trace[j].name = Trace[k].name
          /\ IsSome(FixtureOfEvent(Trace[j]).class_name)
          /\ FixtureOfEvent(Trace[j]).class_name = TestOfId(Trace[i].test).class_name
    /\ \E i \in TestRuns :
          /\ TestOfId(Trace[i].test).class_name = None
          /\ \E k \in 1..Len(ModuleOfFile(Trace[i].test[1]).fixtures) :
                LET f == ModuleOfFile(Trace[i].test[1]).fixtures[k]
                IN /\ f.autouse /\ IsSome(f.class_name)
                   /\ \A j \in Setups : Trace[j].test = Trace[i].test => Trace[j].name # f.name

\* The schedulers created, and the scope each was created for.
LoopNews == {i \in 1..Len(Trace) : Trace[i].kind = "loop_new"}
LoopScopeOf(loop) == Trace[CHOOSE i \in LoopNews : Trace[i].loop = loop].scope

\* The generator set up at i is live at j: set up before, not yet torn down.
LiveAt(i, j) == i < j /\ \A t \in TeardownsOf(i) : t > j

\* C7: within the lifetime of one loop scope everything assigned to that
\* scope runs on one scheduler: no second scheduler is created for the
\* scope while an async fixture constructed on the first is still live.
OneSchedulerPerLoopScope ==
    \A j \in LoopNews : \A i \in GeneratorSetups :
        (/\ Trace[i].loop # 0
         /\ LiveAt(i, j)
         /\ LoopScopeOf(Trace[i].loop) = Trace[j].scope
         /\ SameLifetime(Trace[j].scope, i, j))
        => Trace[j].loop = Trace[i].loop

\* The async and async-generator fixtures in the closure of a test.
AsyncFixturesOf(fixtures, test_case) ==
    {Unwrap(FixtureGet(fixtures, n)) :
        n \in {x \in FixtureClosure(fixtures, test_case) :
                 /\ IsSome(FixtureGet(fixtures, x))
                 /\ (Unwrap(FixtureGet(fixtures, x)).is_async
                        \/ Unwrap(FixtureGet(fixtures, x)).is_async_generator)}}

\* C8: the loop scope a test is run with is at least the scope of every
\* async or async-generator fixture in the closure of the test:
\* parameters, usefixtures names, autouse fixtures that apply, targets of
\* indirect parameters, and all they depend on.
LoopScopeCoversAsyncFixtures ==
    \A i \in TestRuns :
        \A f \in AsyncFixturesOf(ModuleOfFile(Trace[i].file).fixtures, TestOfId(Trace[i].test)) :
            order(Trace[i].scope) >= order(f.scope)

\* The explicit loop scope of a test is narrower than the scope of an
\* async fixture in its closure.
ExplicitScopeTooNarrow(fixtures, test_case) ==
    LET explicit == get_explicit_loop_scope_from_marks(test_case)
    IN /\ IsSome(explicit)
       /\ \E f \in AsyncFixturesOf(fixtures, test_case) :
             order(f.scope) > order(Unwrap(explicit))

\* C9: a test whose explicit loop scope is narrower than the widest async
\* fixture scope in its closure gets a failed result with the loop-scope
\* mismatch diagnostic, and no fixture callable and no test callable is
\* invoked for it, whether it is run one-by-one or in a gathered batch.
NarrowExplicitScopeRejected ==
    \A i \in 1..Len(results) :
        ExplicitScopeTooNarrow(ModuleOfFile(results[i].unique_id[1]).fixtures,
                               TestOfId(results[i].unique_id))
        => /\ results[i].status = "failed"
           /\ results[i].message[1] = "LoopScopeMismatch"
           /\ EventsOfResult(i, {"setup", "test", "test_call"}) = {}

\* C10: a test marked asyncio(loop_scope=S) that passes validation runs
\* its coroutine, and the async fixtures set up for it, on the scheduler
\* of scope exactly S, never on the scheduler of a wider scope.
ExplicitScopeSchedulerUsed ==
    \A i \in TestRuns :
        LET t == TestOfId(Trace[i].test)
            explicit == get_explicit_loop_scope_from_marks(t)
        IN (IsSome(explicit) /\ t.is_async)
           => /\ Trace[i].scope = Unwrap(explicit)
              /\ LoopScopeOf(Trace[i].loop) = Unwrap(explicit)
              /\ \A j \in Setups :
                    (Trace[j].test = Trace[i].test /\ Trace[j].loop # 0)
                    => LoopScopeOf(Trace[j].loop) = Unwrap(explicit)

\* The rule of the gatherable group: the explicit loop scope is absent,
\* class or module, and no async fixture of the closure has package or
\* session scope.
MayShareBatchLoop(fixtures, test_case) ==
    LET explicit == get_explicit_loop_scope_from_marks(test_case)
    IN /\ ~IsSome(explicit) \/ Unwrap(explicit) \in {"class", "module"}
       /\ \A f \in AsyncFixturesOf(fixtures, test_case) :
             f.scope \notin {"package", "session"}

\* C11: when the tests of a class group are partitioned, an async test is
\* put in the gatherable group if and only if its explicit loop scope is
\* absent, class or module and the widest async fixture scope in its
\* closure is not package or session; every other async test is put in the
\* group that is run one-by-one.
GatheredIffShareable ==
    (pc = "class" /\ gi <= Len(groups))
    => \A k \in 1..Len(groups[gi]) :
          LET t == groups[gi][k]
              module == modules[mi]
          IN t.is_async
             => /\ t \in Range(gatherable_async_tests(module, groups[gi]))
                   <=> MayShareBatchLoop(module.fixtures, t)
                /\ t \in Range(sequential_async_tests(module, groups[gi]))
                   <=> ~MayShareBatchLoop(module.fixtures, t)

\* The batch whose results are being iterated over, and the results the
\* batch returned: those already processed and those still to process.
BatchTests == gatherable_async_tests(modules[mi], groups[gi])
BatchResults ==
    LET done == Len(BatchTests) - Len(pending)
    IN SubSeq(results, Len(results) - done + 1, Len(results)) \o pending

BatchResultsOf(test_case) ==
    {i \in 1..Len(BatchResults) :
        BatchResults[i].unique_id = TestId(modules[mi], test_case)}

\* The preparation of a test raises by itself: a fixture of its closure
\* raises in its setup.
SetupRaisesFor(module, test_case) ==
    \E n \in FixtureClosure(module.fixtures, test_case) : RaisesAt("setup", FileOf(module), n)

\* A test of a batch that nothing of its own keeps from running: it has
\* no skip reason, its loop scope is accepted, none of its fixtures
\* raises in setup and the call that creates its coroutine does not raise.
Preparable(module, test_case) ==
    /\ ~IsSome(test_case.skip_reason)
    /\ ~IsSome(validate_loop_scope_compatibility(test_case, module.fixtures))
    /\ ~SetupRaisesFor(module, test_case)
    /\ ~RaisesAt("call", FileOf(module), test_case.name)

\* C12: every test of a gathered batch gets exactly one result record;
\* an exception raised in the coroutine or in the fixture setup of one
\* test of the batch does not keep another test of the batch from being
\* prepared, run and reported with the outcome of its own coroutine.
BatchReportsEveryTest ==
    pc = "gather_results"
    => /\ Len(pending) <= Len(BatchTests)
       /\ Len(BatchTests) - Len(pending) <= Len(results)
       /\ Len(BatchResults) = Len(BatchTests)
       /\ \A k \in 1..Len(BatchTests) :
             LET t == BatchTests[k]
             IN /\ Cardinality(BatchResultsOf(t)) = 1
                /\ Preparable(modules[mi], t)
                   => /\ \E i \in TestRuns : Trace[i].test = TestId(modules[mi], t)
                      /\ \A i \in BatchResultsOf(t) :
                            BatchResults[i].status =
                                IF Raises("test", FileOf(modules[mi]), t.name)
                                THEN "failed"
                                ELSE IF Raises("skip", FileOf(modules[mi]), t.name)
                                     THEN "skipped" ELSE "passed"

\* A batch of several tests has returned: the fixture setup of one test
\* raised, and another test of the batch was run and passed.
BatchReportsEveryTestWitness ==
    /\ pc = "gather_results"
    /\ Len(pending) = Len(BatchTests)
    /\ \E k, l \in 1..Len(BatchTests) :
          /\ SetupRaisesFor(modules[mi], BatchTests[k])
          /\ \E i \in BatchResultsOf(BatchTests[k]) : BatchResults[i].status = "failed"
          /\ Preparable(modules[mi], BatchTests[l])
          /\ \E i \in BatchResultsOf(BatchTests[l]) : BatchResults[i].status = "passed"

\* The position of a test in the discovery order of its module.
DiscoveryIndex(id) ==
    CHOOSE k \in 1..Len(ModuleOfFile(id[1]).tests) : ModuleOfFile(id[1]).tests[k].name = id[2]

\* C13: the result records of the final report are in discovery order
\* within each module, also for a module that mixes sync, sequential
\* async and gathered tests and for a batch in which a test is skipped or
\* fails during preparation.
ResultsInDiscoveryOrder ==
    IsSome(report)
    => LET rs == Unwrap(report).results
       IN \A i, j \in 1..Len(rs) :
             (i < j /\ rs[i].unique_id[1] = rs[j].unique_id[1])
             => DiscoveryIndex(rs[i].unique_id) < DiscoveryIndex(rs[j].unique_id)

\* The collected tests: the ids of the tests of every module of the run.
CollectedTests ==
    UNION {{TestId(modules[m], modules[m].tests[k]) : k \in 1..Len(modules[m].tests)} :
              m \in 1..Len(modules)}

ResultsWithStatus(rs, status) == {i \in 1..Len(rs) : rs[i].status = status}

\* C14: with fail_fast disabled, every collected test yields exactly one
\* result record, and the totals of the report agree with it: total =
\* passed + failed + skipped = the number of result records = the number
\* of collected tests, each count being the number of records of its
\* status.
EveryTestCountedOnce ==
    (IsSome(report) /\ ~fail_fast)
    => LET r == Unwrap(report)
       IN /\ \A id \in CollectedTests :
                Cardinality({i \in 1..Len(r.results) : r.results[i].unique_id = id}) = 1
          /\ r.total = r.passed + r.failed + r.skipped
          /\ r.total = Len(r.results)
          /\ r.total = Cardinality(CollectedTests)
          /\ r.passed = Cardinality(ResultsWithStatus(r.results, "passed"))
          /\ r.failed = Cardinality(ResultsWithStatus(r.results, "failed"))
          /\ r.skipped = Cardinality(ResultsWithStatus(r.results, "skipped"))

\* A run without fail_fast has ended with a passed, a failed and a skipped
\* result.
EveryTestCountedOnceWitness ==
    /\ IsSome(report)
    /\ ~fail_fast
    /\ Unwrap(report).passed > 0
    /\ Unwrap(report).failed > 0
    /\ Unwrap(report).skipped > 0

WiderScopes == {"class", "module", "package", "session"}

\* The teardown lists of the four wider scopes are empty and their loop
\* slots hold nothing.
TeardownListsEmpty ==
    /\ context.teardowns.class = <<>>
    /\ context.teardowns.module = <<>>
    /\ context.teardowns.package = <<>>
    /\ context.teardowns.session = <<>>

LoopSlotsEmpty == \A scope \in WiderScopes : ~IsSome(LoopSlot(Frame, scope))

\* The loop a scope's slot held last: the one created last for the scope.
IsLastLoopOf(j, scope) ==
    /\ Trace[j].scope = scope
    /\ \A k \in LoopNews : Trace[k].scope = scope => k <= j

\* The wider-scope layers are drained: the lists are empty, every
\* generator of a wider scope that was set up was torn down exactly once,
\* the slots are empty and the loop each slot held last is closed.
WiderScopesDrained ==
    /\ TeardownListsEmpty
    /\ \A i \in GeneratorSetups :
          Trace[i].scope \in WiderScopes => Cardinality(TeardownsOf(i)) = 1
    /\ LoopSlotsEmpty
    /\ \A j \in LoopNews : \A scope \in WiderScopes :
          IsLastLoopOf(j, scope) => Trace[j].loop \in py.closed

\* A step that processes a failed result under fail_fast.
FailedResultProcessed ==
    /\ fail_fast
    /\ Len(results') = Len(results) + 1
    /\ results'[Len(results')].status = "failed"

\* The events of a step that start something for a test: all belong to
\* the test whose result the step processes.
StartsNoFurtherTest ==
    \A i \in (Len(py.trace) + 1)..Len(py'.trace) :
        py'.trace[i].kind \in {"setup", "autouse", "usefixtures", "test_call", "test"}
        => py'.trace[i].test = results'[Len(results')].unique_id

\* C15: with fail_fast enabled, the step that processes the first failed
\* result drains the class, module, package and session teardown lists
\* (every pending teardown is run exactly once, none is left), closes the
\* loops of these scopes, emits the summary and returns the report; no
\* further test is started.
FailFastExitDrains ==
    [][FailedResultProcessed
       => /\ \A i \in 1..Len(results) : results[i].status # "failed"
          /\ pc' = "done"
          /\ WiderScopesDrained'
          /\ StartsNoFurtherTest
          /\ events'[Len(events')] = <<"finish_suite">>
          /\ report' = Some(PyRunReport(counts', results'))]_vars

\* The fail-fast exit was taken while a session generator and a loop of a
\* wider scope were pending and a collected test had not been started.
FailFastExitDrainsWitness ==
    /\ pc = "done"
    /\ fail_fast
    /\ results # <<>>
    /\ results[Len(results)].status = "failed"
    /\ \E i \in GeneratorSetups : Trace[i].scope = "session" /\ TeardownsOf(i) # {}
    /\ \E id \in CollectedTests :
          /\ \A i \in 1..Len(results) : results[i].unique_id # id
          /\ \A i \in 1..Len(Trace) : Trace[i].test # id
    /\ \E j \in 1..Len(Trace) :
          Trace[j].kind = "loop_close" /\ Trace[j].scope \in WiderScopes

LastFailedRoundTrip ==
    IsSome(loaded) => Unwrap(loaded) = FailedIds(Unwrap(report).results)

\* The store was read back after a run that wrote several failed ids.
LastFailedRoundTripWitness ==
    /\ IsSome(loaded)
    /\ Cardinality(Unwrap(loaded)) >= 2
    /\ Len(Unwrap(last_failed).failed) = Cardinality(Unwrap(loaded))

\* The run has returned its report at the end of the loop over the
\* modules, not on the fail-fast exit.
CompletedNormally ==
    /\ IsSome(report)
    /\ ~(fail_fast /\ FailedIds(Unwrap(report).results) # {})

\* C18: after the normal completion of a run the teardown list of every
\* scope (class, module, package, session) is empty, and every loop
\* created during the run for one of these scopes has been closed.
CompletedRunLeavesNothingOpen ==
    CompletedNormally
    => /\ TeardownListsEmpty
       /\ LoopSlotsEmpty
       /\ \A j \in LoopNews :
             Trace[j].scope \in WiderScopes => Trace[j].loop \in py.closed

\* The events of tests: a fixture callable or a test callable is invoked
\* for a test.
TestEvents ==
    {j \in 1..Len(Trace) : Trace[j].kind \in {"setup", "test_call", "test"} /\ Trace[j].test # NoTest}

\* The value constructed at i is among the arguments of the call at j.
HandedTo(i, j) ==
    \E a \in 1..Len(Trace[j].args) :
        Trace[j].args[a].tag = "fixture" /\ Trace[j].args[a].inv = Trace[i].inv

\* The setups of class-scoped fixtures that completed.
ClassSetups == {i \in CompletedSetups : Trace[i].scope = "class"}

\* The class layer was reset between the setup at i and the event j of a
\* test outside the class lifetime of i: the value of i is not handed to
\* j, and a generator set up at i was torn down before j.
ClassLayerResetBetween(i, j) ==
    /\ ~HandedTo(i, j)
    /\ i \in GeneratorSetups => \E t \in TeardownsOf(i) : t < j

\* C19: the class cache is emptied and the class teardowns are run at each
\* class transition and between any two consecutive tests without a
\* class, so a class-scoped value constructed for one test is never
\* handed to a test of another class or to another test without a class,
\* whether the tests are sync, sequential async or gathered.
ClassValuesStayInClass ==
    \A i \in ClassSetups : \A j \in TestEvents :
        (i < j /\ ~SameLifetime("class", i, j)) => ClassLayerResetBetween(i, j)

\* The setups of package-scoped fixtures that completed, and the loops
\* created for the package scope.
PackageSetups == {i \in CompletedSetups : Trace[i].scope = "package"}
PackageLoops == {l \in LoopNews : Trace[l].scope = "package"}

\* The loop created at l was closed before the event j.
ClosedBefore(l, j) ==
    \E c \in 1..Len(Trace) :
        /\ Trace[c].kind = "loop_close"
        /\ Trace[c].loop = Trace[l].loop
        /\ l < c
        /\ c < j

\* The event j belongs to a module of another package than the module of
\* the event i, or to a later visit of the package.
PackageLeftBetween(i, j) == i < j /\ ~SameLifetime("package", i, j)

\* On a package change the package layer is reset before anything of the
\* new module runs: pending package teardowns have run, no value of the
\* old package is handed on, and the package loop is closed.
PackageResetOnChange ==
    LET test_events == TestEvents
        generator_setups == GeneratorSetups
    IN /\ \A i \in PackageSetups : \A j \in test_events :
              PackageLeftBetween(i, j)
              => /\ ~HandedTo(i, j)
                 /\ i \in generator_setups => \E t \in TeardownsOf(i) : t < j
       /\ \A l \in PackageLoops : \A j \in test_events :
              (Trace[l].file # Trace[j].file /\ PackageLeftBetween(l, j)) => ClosedBefore(l, j)

\* Consecutive modules of one package share the package layer: a package
\* fixture set up in the first is not set up again in the second, and no
\* package teardown runs before the last event of the package.
PackageSharedWithin ==
    LET test_events == TestEvents
        the_setups == Setups
    IN /\ \A i \in PackageSetups : \A j \in the_setups :
             (i < j /\ Trace[j].key = Trace[i].key /\ Trace[j].scope = "package")
             => ~SameLifetime("package", i, j)
       /\ \A i \in PackageSetups : \A t \in TeardownsOf(i) : \A j \in test_events :
             t < j => ~SameLifetime("package", i, j)

\* C20: when the package of the next module differs from the current
\* package, the pending package teardowns are run, the package cache is
\* emptied and the package loop is closed before any fixture or test of
\* the new module runs; consecutive modules of one package share the
\* package-scoped values, with no package teardown between them.
PackageBoundary == PackageResetOnChange /\ PackageSharedWithin

\* A package generator was set up in the first of two modules of one
\* package and its value handed to a test of the second, and a package
\* generator and a package loop of an earlier package were finished
\* before a test of the next package ran.
PackageBoundaryWitness ==
    /\ \E i \in PackageSetups : \E j \in TestEvents :
          Trace[j].file # Trace[i].file /\ HandedTo(i, j)
    /\ \E i \in PackageSetups : \E j \in TestEvents :
          /\ PackageLeftBetween(i, j)
          /\ \E t \in TeardownsOf(i) : t < j
    /\ \E l \in PackageLoops : \E j \in TestEvents :
          PackageLeftBetween(l, j) /\ ClosedBefore(l, j)

\* ---------------------------------------------------------------------
\* Function-scoped fixtures
\* ---------------------------------------------------------------------

\* The setups of function-scoped fixtures.
FunctionSetups == {i \in Setups : Trace[i].scope = "function"}

\* The function-scoped fixtures a test requires, directly or through
\* other fixtures, autouse fixtures and usefixtures marks.
FunctionFixturesOf(id) ==
    {n \in FixtureClosure(ModuleOfFile(id[1]).fixtures, TestOfId(id)) :
        LET fx == FixtureGet(ModuleOfFile(id[1]).fixtures, n)
        IN IsSome(fx) /\ Unwrap(fx).scope = "function"}

\* C21: a function-scoped fixture is constructed afresh for every test
\* that requires it. Its callable is invoked at most once within a test
\* and exactly once for a test whose callable ran, so N tests requiring it
\* invoke it N times; the value constructed for one test is never among
\* the arguments of a fixture or test call of another test, tests of one
\* gathered batch included.
FunctionFixturePerTest ==
    LET test_events == TestEvents
        the_setups == FunctionSetups
    IN /\ \A i \in the_setups : \A j \in test_events :
              (Trace[j].test # Trace[i].test /\ Trace[i].ok) => ~HandedTo(i, j)
       /\ \A i \in the_setups : \A j \in the_setups :
              (Trace[i].test = Trace[j].test /\ Trace[i].name = Trace[j].name) => i = j
       /\ \A j \in TestRuns : \A n \in FunctionFixturesOf(Trace[j].test) :
              \E i \in the_setups :
                  i < j /\ Trace[i].test = Trace[j].test /\ Trace[i].name = n /\ Trace[i].ok

\* Two tests of one gathered batch ran, each with its own value of the
\* function-scoped fixture g: two tests ran with g, g was invoked twice.
FunctionFixturePerTestWitness ==
    /\ \E i \in FunctionSetups : \E j \in FunctionSetups :
        /\ i < j
        /\ Trace[i].name = "g" /\ Trace[j].name = "g"
        /\ Trace[i].test[2] = "test_p" /\ Trace[j].test[2] = "test_r"
        /\ \E t \in TestRuns : t > j /\ Trace[t].test = Trace[i].test /\ HandedTo(i, t)
        /\ \E t \in TestRuns : t > j /\ Trace[t].test = Trace[j].test /\ HandedTo(j, t)
    /\ Cardinality({i \in FunctionSetups : Trace[i].name = "g"}) = 2
    /\ pc = "done"

\* ---------------------------------------------------------------------
\* Parametrised fixtures
\* ---------------------------------------------------------------------

\* The index a test selects for a fixture, if it selects one.
SelectedIndex(id, name) ==
    LET idx == TestOfId(id).fixture_param_indices
    IN IF name \in DOMAIN idx THEN Some(idx[name]) ELSE None

\* The completed setups of parametrised fixtures for tests that select one
\* of their variants.
ParamSetups ==
    {i \in CompletedSetups :
        /\ Trace[i].test # NoTest
        /\ FixtureOfEvent(Trace[i]).nparams > 0
        /\ IsSome(SelectedIndex(Trace[i].test, Trace[i].name))}

\* C22: two tests that select different variants of a parametrised fixture
\* never share a cached value of it, at any scope: a value constructed for
\* a test that selects index i is handed only to calls of tests that
\* select i. Two tests that select the same variant within one lifetime
\* of the fixture's scope share one value: the variant is not constructed
\* a second time within the lifetime.
ParamIndexSeparatesEntries ==
    /\ \A i \in ParamSetups : \A j \in TestEvents :
           HandedTo(i, j) =>
               SelectedIndex(Trace[j].test, Trace[i].name)
                   = SelectedIndex(Trace[i].test, Trace[i].name)
    /\ \A i \in ParamSetups : \A j \in ParamSetups :
           ( /\ i < j
             /\ Trace[i].name = Trace[j].name
             /\ Trace[i].file = Trace[j].file
             /\ SelectedIndex(Trace[i].test, Trace[i].name)
                    = SelectedIndex(Trace[j].test, Trace[j].name) )
           => ~SameLifetime(Trace[i].scope, i, j)

\* The three cases around f ran with f wider than a test: the first and the
\* third, which select variant 0, were handed one value, the second, which
\* selects variant 1, another.
ParamIndexSeparatesEntriesWitness ==
    /\ pc = "done"
    /\ \E i \in ParamSetups : \E t0 \in TestRuns : \E t1 \in TestRuns : \E t2 \in TestRuns :
        /\ Trace[i].name = "f" /\ Trace[i].scope # "function"
        /\ Trace[t0].test[2] = "test_n0" /\ HandedTo(i, t0)
        /\ Trace[t2].test[2] = "test_n2" /\ HandedTo(i, t2)
        /\ Trace[t1].test[2] = "test_n1" /\ ~HandedTo(i, t1)
        /\ \E k \in ParamSetups : k # i /\ Trace[k].name = "f" /\ HandedTo(k, t1)

\* ---------------------------------------------------------------------
\* The request object
\* ---------------------------------------------------------------------

\* The places of the trace where a request object is an argument of a call.
RequestArgs ==
    UNION {{<<j, a>> : a \in {k \in 1..Len(Trace[j].args) : Trace[j].args[k].tag = "request"}} :
              j \in 1..Len(Trace)}

\* The values held by the four layers of the context.
ContextCached ==
    {context.class_cache[k] : k \in DOMAIN context.class_cache}
    \cup {context.module_cache[k] : k \in DOMAIN context.module_cache}
    \cup {context.package_cache[k] : k \in DOMAIN context.package_cache}
    \cup {context.session_cache[k] : k \in DOMAIN context.session_cache}

\* The parametrisation value a fixture has for the test of the event e.
OwnParam(e) ==
    LET sel == SelectedIndex(e.test, e.name)
    IN IF FixtureOfEvent(e).nparams > 0 /\ IsSome(sel)
       THEN Some(ParamValue(e.name, Unwrap(sel)))
       ELSE None

\* C23: the request object is never stored in a cache layer and is built
\* anew on each request: no layer holds one or has the key request, and
\* the request objects of two argument places are two objects (a cached
\* one would come back to the second place of a test). The one handed to
\* a fixture carries the fixture's own parametrisation value for the test,
\* none if the fixture is not parametrised, whichever fixtures were
\* resolved before the fixture's request parameter.
RequestBuiltPerFixture ==
    /\ \A v \in ContextCached : v.tag # "request"
    /\ Key("request") \notin
           (DOMAIN context.class_cache \cup DOMAIN context.module_cache
            \cup DOMAIN context.package_cache \cup DOMAIN context.session_cache)
    /\ \A p \in RequestArgs : \A q \in RequestArgs :
           Trace[p[1]].args[p[2]].inv = Trace[q[1]].args[q[2]].inv => p = q
    /\ \A i \in Setups :
           LET parameters == FixtureOfEvent(Trace[i]).parameters
           IN \A a \in 1..Len(Trace[i].args) :
                  (parameters[a] = "request") =>
                      /\ Trace[i].args[a].tag = "request"
                      /\ Trace[i].args[a].param = OwnParam(Trace[i])

\* f was set up for the first case after d and e were set up for it, each
\* of the three with a request object of its own: none for d, variant 1
\* of e for e, variant 0 of f for f.
RequestBuiltPerFixtureWitness ==
    \E d \in CompletedSetups : \E e \in CompletedSetups : \E f \in CompletedSetups :
        /\ d < e /\ e < f
        /\ Trace[d].test = Trace[f].test /\ Trace[e].test = Trace[f].test
        /\ Trace[f].test[2] = "test_n0"
        /\ Trace[d].name = "d" /\ Trace[e].name = "e" /\ Trace[f].name = "f"
        /\ HandedTo(d, f) /\ HandedTo(e, f)
        /\ Trace[d].args[1].param = None
        /\ Trace[e].args[1].param = Some(ParamValue("e", 1))
        /\ Trace[f].args[3].tag = "request"
        /\ Trace[f].args[3].param = Some(ParamValue("f", 0))
        /\ Cardinality({Trace[d].args[1].inv, Trace[e].args[1].inv, Trace[f].args[3].inv}) = 3

\* ---------------------------------------------------------------------
\* Teardowns that raise
\* ---------------------------------------------------------------------

\* The attempts to run the teardown of the generator set up at i, those on
\* a closed loop included.
TeardownAttempts(i) ==
    {t \in 1..Len(Trace) :
        Trace[t].kind \in {"teardown", "teardown_not_run"} /\ Trace[t].inv = Trace[i].inv}

\* The generator set up at i2 was on the teardown list that the drain of
\* the teardown t of a generator set up later was working on: same scope
\* (and same test, for function scope), and not torn down before.
RemainingAt(i2, t) ==
    \E i1 \in GeneratorSetups :
        /\ t \in TeardownAttempts(i1)
        /\ i2 < i1
        /\ Trace[i2].scope = Trace[i1].scope
        /\ Trace[i2].scope = "function" => Trace[i2].test = Trace[i1].test
        /\ \A t2 \in TeardownAttempts(i2) : t2 > i1

\* C24: an exception raised by the teardown of one fixture does not
\* prevent the remaining teardowns of the same drain, each of which still
\* runs exactly once, after it (the list is drained last in, first out),
\* and it changes the status of no result: a result that carries a raised
\* exception names a fixture callable or a test callable that raises, and
\* where only teardowns raise no result carries one.
RaisingTeardownIsContained ==
    /\ \A t \in {u \in Teardowns : ~Trace[u].ok} : \A i2 \in GeneratorSetups :
           RemainingAt(i2, t)
               => /\ Cardinality(TeardownAttempts(i2)) = 1
                  /\ \A t2 \in TeardownAttempts(i2) : t2 > t
    /\ \A r \in 1..Len(results) :
           (results[r].message # <<>> /\ results[r].message[1] = "Raised")
               => \E kind \in {"setup", "test", "call"} :
                      Raises(kind, results[r].unique_id[1], results[r].message[2])

\* A teardown raised, a generator set up before it in the same scope was
\* torn down after it, and every test of the run passed.
RaisingTeardownIsContainedWitness ==
    /\ pc = "done"
    /\ \E t \in Teardowns : \E i2 \in GeneratorSetups :
           /\ ~Trace[t].ok
           /\ RemainingAt(i2, t)
           /\ \E t2 \in Teardowns : t2 > t /\ Trace[t2].inv = Trace[i2].inv /\ Trace[t2].ok
    /\ Len(results) > 0
    /\ \A r \in 1..Len(results) : results[r].status = "passed"

\* ---------------------------------------------------------------------
\* Tests with a skip reason
\* ---------------------------------------------------------------------

\* The tests of the run that carry a skip reason, as (module, test) pairs.
SkipReasonTests ==
    UNION {{<<m, t>> : t \in {k \in 1..Len(modules[m].tests) :
                                  IsSome(modules[m].tests[k].skip_reason)}} :
              m \in 1..Len(modules)}

\* C25: a test with a skip reason yields a skipped result that carries the
\* reason, and nothing is invoked for it: no fixture callable, autouse
\* fixtures included, and not the test callable. This holds for a test
\* run one by one and for a test of a gathered batch.
SkipReasonInvokesNothing ==
    \A s \in SkipReasonTests :
        LET module == modules[s[1]]
            test_case == module.tests[s[2]]
            id == TestId(module, test_case)
        IN /\ \A j \in 1..Len(Trace) : Trace[j].test # id
           /\ \A r \in 1..Len(results) :
                  results[r].unique_id = id
                      => /\ results[r].status = "skipped"
                         /\ results[r].message = <<"SkipReason", Unwrap(test_case.skip_reason)>>
           /\ (pc = "done" /\ ~fail_fast) => \E r \in 1..Len(results) : results[r].unique_id = id

\* Both tests with a skip reason of the module with autouse fixtures have
\* their result, the async one from the gathered batch and the sync one
\* from run_single_test, and the autouse fixtures ran for other tests.
SkipReasonInvokesNothingWitness ==
    /\ pc = "done"
    /\ \E r \in 1..Len(results) :
           results[r].unique_id[2] = "test_wait" /\ results[r].status = "skipped"
    /\ \E r \in 1..Len(results) :
           results[r].unique_id[2] = "test_off" /\ results[r].status = "skipped"
    /\ \E i \in CompletedSetups : Trace[i].name = "mod_auto"
    /\ \E i \in CompletedSetups : Trace[i].name = "setup_db"

\* ---------------------------------------------------------------------
\* Classification of exceptions
\* ---------------------------------------------------------------------

\* The results that carry an exception raised by a callable: by a fixture
\* in its setup, by the call that creates the coroutine, or by the body of
\* the test.
RaisedResults ==
    {r \in 1..Len(results) :
        results[r].message # <<>> /\ results[r].message[1] \in {"Raised", "Skipped"}}

\* C26: a skip signal gives a skipped result and any other exception a
\* failed one, under the same rules for a test of a gathered batch and
\* for a test run one by one, wherever the exception is raised: in a
\* fixture setup, at the creation of the coroutine or in the test body.
ExceptionsClassifiedAlike ==
    \A r \in RaisedResults :
        results[r].status = IF is_skip_exception(results[r].message) THEN "skipped" ELSE "failed"

\* ---------------------------------------------------------------------
\* Fixtures that raise
\* ---------------------------------------------------------------------

\* The setups in which the fixture callable raised an exception other
\* than the skip signal.
FailedSetups ==
    {i \in Setups : ~Trace[i].ok /\ Raises("setup", Trace[i].file, Trace[i].name)}

\* C27: a fixture whose callable raises is not cached at any scope. The
\* test that requested it gets a failed result; no layer holds a value of
\* the failed invocation and no call is handed one, so that every test
\* that fails on the fixture has invoked the callable itself; and what was
\* constructed for the test before the failure at a wider scope than
\* function stays cached at its scope: it is not constructed again within
\* its lifetime.
RaisingFixtureNotCached ==
    LET failed == FailedSetups
        test_events == TestEvents
        the_setups == Setups
        cached == {v.inv : v \in {w \in ContextCached : w.tag = "fixture"}}
    IN /\ \A i \in failed :
              /\ Trace[i].inv \notin cached
              /\ \A j \in test_events : ~HandedTo(i, j)
              /\ \A r \in 1..Len(results) :
                     results[r].unique_id = Trace[i].test => results[r].status = "failed"
              /\ (pc = "done" /\ ~fail_fast)
                     => \E r \in 1..Len(results) : results[r].unique_id = Trace[i].test
              /\ \A d \in CompletedSetups :
                     (d < i /\ Trace[d].test = Trace[i].test /\ Trace[d].scope # "function")
                         => \A j \in the_setups :
                                (j > i /\ Trace[j].key = Trace[d].key /\ Trace[j].file = Trace[d].file)
                                    => ~SameLifetime(Trace[d].scope, d, j)
       /\ \A r \in 1..Len(results) :
              ( /\ results[r].status = "failed"
                /\ results[r].message # <<>>
                /\ results[r].message[1] = "Raised"
                /\ Raises("setup", results[r].unique_id[1], results[r].message[2]) )
              => \E i \in failed :
                     Trace[i].test = results[r].unique_id /\ Trace[i].name = results[r].message[2]

\* The fixture f, wider than a test, raised for each of the three cases
\* that require it, the third of which selects the variant the first
\* selected; all three failed, and the session fixture d constructed
\* before the first failure was handed to the later invocations of f.
RaisingFixtureNotCachedWitness ==
    /\ pc = "done"
    /\ Cardinality({Trace[i].test : i \in {k \in FailedSetups :
                        Trace[k].name = "f" /\ Trace[k].scope # "function"}}) = 3
    /\ Cardinality({r \in 1..Len(results) : results[r].status = "failed"}) = 3
    /\ \E d \in CompletedSetups : \E i \in FailedSetups :
           /\ Trace[d].name = "d"
           /\ Trace[i].test # Trace[d].test
           /\ HandedTo(d, i)
    /\ Cardinality({d \in Setups : Trace[d].name = "d"}) = 1

\* ---------------------------------------------------------------------
\* Schedulers of async fixtures and tests
\* ---------------------------------------------------------------------

\* The completed setups of async-generator fixtures.
AsyncGeneratorSetups ==
    {i \in CompletedSetups : FixtureOfEvent(Trace[i]).is_async_generator}

\* C28: for every async-generator fixture, of any scope, the teardown is
\* run on the scheduler instance the setup was run on, never on another
\* or a freshly created one.
TeardownOnSetupScheduler ==
    \A i \in AsyncGeneratorSetups : \A t \in TeardownAttempts(i) :
        Trace[t].kind = "teardown" /\ Trace[t].loop = Trace[i].loop

\* The setups that ran on a scheduler: those of async and async-generator
\* fixtures.
AsyncSetups == {i \in Setups : Trace[i].loop # 0}

\* The runs of test coroutines.
CoroutineRuns == {j \in TestRuns : Trace[j].loop # 0}

\* C29: within one test, the setups of the async fixtures constructed for
\* the test and the coroutine of the test run on one scheduler instance,
\* and no scheduler is created between the first such setup and the run of
\* the coroutine.
OneSchedulerPerTest ==
    LET async_setups == AsyncSetups
        loop_news == LoopNews
    IN /\ \A i \in async_setups : \A k \in async_setups :
              Trace[i].test = Trace[k].test => Trace[i].loop = Trace[k].loop
       /\ \A j \in CoroutineRuns : \A i \in async_setups :
              Trace[i].test = Trace[j].test
                  => /\ i < j
                     /\ Trace[i].loop = Trace[j].loop
                     /\ \A l \in loop_news : ~(i < l /\ l < j)

\* An async-generator fixture was set up for an async test run one by one,
\* and for an async test of a gathered batch, and the coroutine of each
\* test ran on the scheduler of the setup.
OneSchedulerPerTestWitness ==
    /\ \E j \in CoroutineRuns : \E i \in AsyncSetups :
           /\ Trace[i].test = Trace[j].test
           /\ Trace[i].ok
           /\ Trace[j].scope = "function"
           /\ Trace[i].loop = Trace[j].loop
    /\ \E j \in CoroutineRuns : \E i \in AsyncSetups :
           /\ Trace[i].test = Trace[j].test
           /\ Trace[i].ok
           /\ Trace[j].scope = "module"
           /\ Trace[j].test[2] = "test_b"
           /\ Trace[i].loop = Trace[j].loop

\* The schedulers created for the function scope of a test.
FunctionLoops == {l \in LoopNews : Trace[l].scope = "function"}

\* C30: a function-scoped scheduler created during a test is closed
\* before the result of the test is produced, on every exit path: the
\* test passes, the test fails, or the setup of a fixture fails after the
\* scheduler was created.
FunctionLoopClosedWithTest ==
    \A l \in FunctionLoops : \A r \in 1..Len(results) :
        results[r].unique_id = Trace[l].test
            => \E c \in 1..Len(Trace) :
                   /\ Trace[c].kind = "loop_close"
                   /\ Trace[c].loop = Trace[l].loop
                   /\ c > l

\* ---------------------------------------------------------------------
\* Acquiring a scheduler
\* ---------------------------------------------------------------------

\* The greatest of a set of loops, if any.
LastOf(loops) == {l \in loops : \A k \in loops : k <= l}

\* The frames get_or_create_event_loop is applied to: the context and the
\* host runtime of the current state with the function slot of a new
\* resolver and an empty log, the slot of the scope holding nothing, what
\* it holds, the loop closed last or the loop created last.
AcquireInputs(F, scope) ==
    {SetLoopSlot(F, scope, slot) :
        slot \in {None, LoopSlot(F, scope)}
                 \cup {Some(l) : l \in LastOf(py.closed) \cup LastOf(1..(py.next_loop - 1))}}

\* What two successive acquisitions on the frame F yield, first and then
\* second: the same handle, open and in the slot, and no change by the
\* second; the handle the slot held if that was open, a new one if not.
AcquiredTwice(F, scope, slot, first, second) ==
    /\ second.loop = first.loop
    /\ second.F = first.F
    /\ LoopSlot(first.F, scope) = Some(first.loop)
    /\ first.loop \notin first.F.py.closed
    /\ IF IsSome(slot) /\ Unwrap(slot) \notin F.py.closed
       THEN first.loop = Unwrap(slot) /\ first.F = F
       ELSE /\ first.loop = F.py.next_loop
            /\ first.F.py.next_loop = F.py.next_loop + 1
            /\ first.F.py.current_loop = Some(first.loop)

AcquiredOnce(F, scope, first) ==
    AcquiredTwice(F, scope, LoopSlot(F, scope), first, get_or_create_event_loop(first.F, scope))

\* C31: acquiring is idempotent while the handle is open. A second
\* get_or_create_event_loop for the same scope with no close in between
\* returns the handle of the first and changes nothing; a new handle is
\* created, put in the slot and made the current loop only when the slot
\* of the scope is empty or holds a closed handle, and an open handle in
\* the slot is returned as it is.
AcquireIsIdempotent ==
    LET F0 == [Frame EXCEPT !.resolver = [function_event_loop |-> None], !.py.trace = <<>>]
    IN \A scope \in Scopes : \A F \in AcquireInputs(F0, scope) :
          AcquiredOnce(F, scope, get_or_create_event_loop(F, scope))

\* The loop of a scope was acquired for two tests that ran on it, and a
\* loop of the same scope was closed and another one created after it.
AcquireIsIdempotentWitness ==
    /\ \E l \in LoopNews : \E i, j \in TestRuns :
           /\ l < i /\ i < j
           /\ Trace[i].test # Trace[j].test
           /\ Trace[i].loop = Trace[l].loop /\ Trace[j].loop = Trace[l].loop
           /\ Trace[i].scope = Trace[l].scope /\ Trace[j].scope = Trace[l].scope
           /\ Trace[l].test = Trace[i].test
    /\ \E l, m \in LoopNews :
           /\ l < m
           /\ Trace[l].scope = Trace[m].scope
           /\ Trace[l].scope \in Scopes
           /\ Trace[l].loop \in py.closed
           /\ \E sc \in Scopes \ {"function"} : LoopSlot(Frame, sc) = Some(Trace[m].loop)

\* ------------------------------------------------------------------------
\* The order of resolution for a test
\* ------------------------------------------------------------------------
\* The names resolve_usefixtures_marks iterates, as logged.
UsefixturesEvents == {i \in 1..Len(Trace) : Trace[i].kind = "usefixtures"}

\* The place of a name in a sequence of fixtures or of names.
RegistryIndex(fixtures, name) == CHOOSE k \in 1..Len(fixtures) : fixtures[k].name = name
NameIndex(names, name) == CHOOSE k \in 1..Len(names) : names[k] = name

\* The names the implicit resolutions of a test reach: the applicable
\* autouse fixtures and the usefixtures names, with their dependencies.
ImplicitClosure(fixtures, test_case) ==
    Reach(fixtures, test_case,
          Range(AutouseNames(fixtures, test_case.class_name, 1))
          \cup Range(UsefixturesNames(test_case.marks, 1)))

\* The formal parameters of the test are resolved in declaration order:
\* of two fixtures set up for the parameters of one test, the one of the
\* earlier parameter is set up first, unless the later one was reached
\* before through the earlier one or through an implicit resolution.
ParametersInDeclarationOrder(the_setups, id) ==
    LET t == TestOfId(id)
        fixtures == ModuleOfFile(id[1]).fixtures
        mine == {s \in the_setups : Trace[s].test = id}
    IN \A sa, sb \in mine :
          sb < sa =>
          \A a, b \in 1..Len(t.parameters) :
             (/\ a < b
              /\ Trace[sa].name \in Requested(t, t.parameters[a], 1)
              /\ Trace[sb].name \in Requested(t, t.parameters[b], 1))
             => Trace[sb].name \in
                   Reach(fixtures, t, {Trace[sa].name} \cup ImplicitClosure(fixtures, t))

\* Every dependency of a fixture is constructed before its callable is
\* invoked: the call has one argument per parameter, and each fixture
\* value among them comes from a setup that completed before.
DependenciesConstructedFirst(completed, j) ==
    LET f == FixtureOfEvent(Trace[j])
        args == Trace[j].args
    IN /\ Len(args) = Len(f.parameters)
       /\ \A a \in 1..Len(args) :
             args[a].tag = "fixture"
             => \E i \in completed :
                   /\ i < j
                   /\ Trace[i].inv = args[a].inv
                   /\ Trace[i].name \in Requested(TestOfId(Trace[j].test), f.parameters[a], 1)

\* C32: for each test the fixtures are resolved in order: the applicable
\* autouse fixtures in registry order, then the names of the usefixtures
\* marks, then the formal parameters of the test in declaration order,
\* all before the callable of the test; and the dependencies of each
\* fixture are fully constructed before its own callable is invoked.
ResolvedInOrder ==
    LET autouse_events == AutouseEvents
        use_events == UsefixturesEvents
        the_setups == Setups
        completed == CompletedSetups
        calls == TestCalls
    IN /\ \A i \in autouse_events :
             LET fixtures == ModuleOfFile(Trace[i].test[1]).fixtures
             IN /\ \A j \in autouse_events :
                      (i < j /\ Trace[i].test = Trace[j].test)
                      => RegistryIndex(fixtures, Trace[i].name) < RegistryIndex(fixtures, Trace[j].name)
                /\ \A j \in use_events : Trace[i].test = Trace[j].test => i < j
       /\ \A i \in use_events :
             LET names == UsefixturesNames(TestOfId(Trace[i].test).marks, 1)
             IN \A j \in use_events :
                   (i < j /\ Trace[i].test = Trace[j].test)
                   => NameIndex(names, Trace[i].name) < NameIndex(names, Trace[j].name)
       /\ \A m \in autouse_events \cup use_events : \A j \in the_setups :
             (Trace[m].test = Trace[j].test /\ j < m)
             => Trace[j].name \in
                   ImplicitClosure(ModuleOfFile(Trace[j].test[1]).fixtures, TestOfId(Trace[j].test))
       /\ \A j \in the_setups :
             /\ DependenciesConstructedFirst(completed, j)
             /\ \A c \in calls : Trace[c].test = Trace[j].test => j < c
       /\ \A c \in calls :
             \A m \in autouse_events \cup use_events : Trace[m].test = Trace[c].test => m < c
       /\ \A id \in CollectedTests : ParametersInDeclarationOrder(the_setups, id)

\* A test of a class had its two autouse fixtures resolved in registry
\* order, the second constructed from the value of a fixture set up just
\* before it; and a test with a usefixtures mark had its autouse fixture
\* resolved first, then the marked name, whose fixture was set up before
\* the callable of the test was invoked.
ResolvedInOrderWitness ==
    /\ pc = "done"
    /\ \E i, j \in AutouseEvents : \E d, s \in CompletedSetups : \E c \in TestRuns :
          /\ Trace[i].test = <<"test_auto.py", "test_in_d">>
          /\ Trace[j].test = Trace[i].test /\ Trace[d].test = Trace[i].test
          /\ Trace[s].test = Trace[i].test /\ Trace[c].test = Trace[i].test
          /\ Trace[i].name = "mod_auto" /\ Trace[j].name = "setup_d"
          /\ Trace[d].name = "setup_db" /\ Trace[s].name = "setup_d"
          /\ i < j /\ j < d /\ d < s /\ s < c
          /\ HandedTo(d, s)
    /\ \E i \in AutouseEvents : \E u \in UsefixturesEvents : \E s \in CompletedSetups : \E c \in TestRuns :
          /\ Trace[i].test = <<"test_auto.py", "test_names">>
          /\ Trace[u].test = Trace[i].test /\ Trace[s].test = Trace[i].test
          /\ Trace[c].test = Trace[i].test
          /\ Trace[u].name = "setup_db" /\ Trace[s].name = "setup_db"
          /\ i < u /\ u < s /\ s < c

\* ------------------------------------------------------------------------
\* Termination of the resolution
\* ------------------------------------------------------------------------
\* The fixture reaches itself through the parameters of fixtures.
OnCycle(fixtures, test_case, fixture) ==
    fixture.name \in
        Reach(fixtures, test_case,
              UNION {Requested(test_case, fixture.parameters[k], 1) :
                        k \in 1..Len(fixture.parameters)})

\* The results of the tests that request a fixture of a dependency cycle.
CycleResults ==
    {i \in 1..Len(results) :
        LET fixtures == ModuleOfFile(results[i].unique_id[1]).fixtures
            t == TestOfId(results[i].unique_id)
        IN \E n \in NamedClosure(fixtures, t) :
              IsSome(FixtureGet(fixtures, n)) /\ OnCycle(fixtures, t, Unwrap(FixtureGet(fixtures, n)))}

\* C34: fixture resolution always terminates with a value or an error,
\* for every registry and every parameter map: no resolution runs until
\* the stack of the process is exhausted, also when the literal of an
\* indirect parameter names the parameter itself or another indirect
\* parameter; a test that requests a fixture of a dependency cycle fails
\* with the recursive-dependency error naming a fixture of the cycle, and
\* no callable of a fixture on a cycle is invoked.
ResolutionTerminates ==
    /\ ~py.crashed
    /\ pc # "aborted"
    /\ \A i \in Setups :
          ~OnCycle(ModuleOfFile(Trace[i].test[1]).fixtures, TestOfId(Trace[i].test),
                   FixtureOfEvent(Trace[i]))
    /\ \A i \in CycleResults :
          LET fixtures == ModuleOfFile(results[i].unique_id[1]).fixtures
              t == TestOfId(results[i].unique_id)
          IN /\ results[i].status = "failed"
             /\ results[i].message[1] = "RecursiveDependency"
             /\ OnCycle(fixtures, t, Unwrap(FixtureGet(fixtures, results[i].message[2])))

\* ------------------------------------------------------------------------
\* Parametrised values: literals and indirect references
\* ------------------------------------------------------------------------
\* The value v handed to the call at c is the value of the fixture called
\* name, constructed by a setup that completed before the call.
FixtureValueOf(completed, c, name, v) ==
    /\ v.tag = "fixture"
    /\ v.name = name
    /\ \E i \in completed : i < c /\ Trace[i].name = name /\ Trace[i].inv = v.inv

\* The calls of the tests that have parametrised values.
ParametrisedCalls == {c \in TestCalls : DOMAIN TestOfId(Trace[c].test).parameter_values # {}}

\* Every fixture callable invoked for a test with parametrised values
\* belongs to a fixture the test reaches: a name shadowed by a literal
\* reaches nothing.
OnlyReachedFixturesSetUp(the_setups) ==
    \A s \in the_setups :
        DOMAIN TestOfId(Trace[s].test).parameter_values # {}
        => Trace[s].name \in FixtureClosure(ModuleOfFile(Trace[s].test[1]).fixtures,
                                            TestOfId(Trace[s].test))

RECURSIVE ResolvesTo(_, _, _, _, _, _)
ResolvesTo(completed, c, test_case, name, v, depth) ==
    IF depth > MaxDepth THEN FALSE
    ELSE IF name \in DOMAIN test_case.parameter_values
    THEN IF name \in Range(test_case.indirect_params)
         THEN ResolvesTo(completed, c, test_case, test_case.parameter_values[name], v, depth + 1)
         ELSE v = Literal(test_case.parameter_values[name])
    ELSE FixtureValueOf(completed, c, name, v)

PendingGenerators ==
    {context.teardowns.class[k].inv : k \in 1..Len(context.teardowns.class)}
    \cup {context.teardowns.module[k].inv : k \in 1..Len(context.teardowns.module)}
    \cup {context.teardowns.package[k].inv : k \in 1..Len(context.teardowns.package)}
    \cup {context.teardowns.session[k].inv : k \in 1..Len(context.teardowns.session)}

\* The value was yielded by a generator or an async generator fixture.
IsGeneratorValue(v) ==
    /\ v.tag = "fixture"
    /\ LET f == Unwrap(FixtureGet(ModuleOfFile(v.file).fixtures, v.name))
       IN f.is_generator \/ f.is_async_generator

\* The values in the layers a resolver can hit next: the four layers of
\* the context when a test is about to be run one-by-one; the module,
\* package and session layers when a class group is about to start, which
\* clears the class layer before it prepares its gathered batch.
HittableEntries ==
    IF AboutToRun THEN ContextCached
    ELSE IF pc = "class" /\ gi <= Len(groups)
    THEN {context.module_cache[k] : k \in DOMAIN context.module_cache}
         \cup {context.package_cache[k] : k \in DOMAIN context.package_cache}
         \cup {context.session_cache[k] : k \in DOMAIN context.session_cache}
    ELSE {}

\* C35: no test receives from a cache layer the value of a generator or
\* async-generator fixture whose teardown has already run: a value handed
\* to a fixture or to a test is handed before the teardown of its
\* generator; and every entry of a generator fixture in a cache layer
\* that a resolver can still hit has its teardown pending.
CachedGeneratorsPending ==
    LET generator_setups == GeneratorSetups
        test_events == TestEvents
    IN /\ \A i \in generator_setups : \A t \in TeardownsOf(i) :
             \A j \in test_events : HandedTo(i, j) => j < t
       /\ \A v \in HittableEntries : IsGeneratorValue(v) => v.inv \in PendingGenerators

\* A test is about to be run while a layer holds the value of a generator
\* whose teardown is pending and which a test other than the one it was
\* set up for has received; a generator of a wider scope set up before
\* has been torn down and no layer holds its value.
CachedGeneratorsPendingWitness ==
    /\ AboutToRun
    /\ \E v \in HittableEntries : \E i \in GeneratorSetups : \E j \in TestEvents :
          /\ IsGeneratorValue(v) /\ v.inv \in PendingGenerators
          /\ Trace[i].inv = v.inv /\ HandedTo(i, j) /\ Trace[j].test # Trace[i].test
    /\ \E i \in GeneratorSetups :
          /\ Trace[i].scope \in WiderScopes
          /\ TeardownsOf(i) # {}
          /\ \A v \in ContextCached : v.tag = "fixture" => v.inv # Trace[i].inv

\* ------------------------------------------------------------------------
\* Teardown order across fixtures and scopes
\* ------------------------------------------------------------------------
\* The generator set up at d was constructed from the value of the
\* generator set up at i, and the teardown of i at t found the teardown
\* of d already run.
DependentTornDownBefore(i, d, t) ==
    HandedTo(i, d) => \E td \in TeardownsOf(d) : td < t

\* The generators set up at i1 and i2 were live at the same time, i1 of
\* the narrower scope, and t1, t2 are their teardowns: t1 comes first.
NarrowerTornDownFirst(i1, i2, t1, t2) ==
    (/\ order(Trace[i1].scope) < order(Trace[i2].scope)
     /\ i1 < t2 /\ i2 < t1)
    => t1 < t2

DefinitionFor(id, name) == FixtureGet(ModuleOfFile(id[1]).fixtures, name)

\* C37: the value a test receives for the fixture name n was produced by
\* the fixture definition registered under n in the registry of the
\* module of that test: an entry a session or package layer got under the
\* name while an earlier module ran is not returned to a test of a later
\* module whose registry has another definition under the name.
ValuesFromOwnRegistry ==
    LET completed == CompletedSetups
    IN \A c \in TestCalls : \A a \in 1..Len(Trace[c].args) :
          Trace[c].args[a].tag = "fixture"
          => \A i \in completed :
                Trace[i].inv = Trace[c].args[a].inv
                => DefinitionFor(Trace[c].test, Trace[c].args[a].name)
                      = DefinitionFor(Trace[i].test, Trace[i].name)

\* ------------------------------------------------------------------------
\* The report of a run that stops at the first failure
\* ------------------------------------------------------------------------
\* C38: with fail_fast, every test whose callable was invoked during the
\* run has a result record in the report the run returns, and every such
\* test whose callable raised is in the persisted set of failed ids: no
\* test of a gathered batch that ran is missing from either.
InvokedTestsReported ==
    (fail_fast /\ IsSome(report))
    => \A c \in TestRuns :
          /\ \E i \in 1..Len(Unwrap(report).results) :
                Unwrap(report).results[i].unique_id = Trace[c].test
          /\ ~Trace[c].ok
             => \E k \in 1..Len(Unwrap(last_failed).failed) :
                   Unwrap(last_failed).failed[k] = Trace[c].test

\* C39: with fail_fast the report holds at most one failed record and, if
\* there is one, it is the last record of the report; the failed total of
\* the report says the same.
AtMostOneFailedAndLast ==
    (fail_fast /\ IsSome(report))
    => LET rs == Unwrap(report).results
           failed_records == ResultsWithStatus(rs, "failed")
       IN /\ Cardinality(failed_records) <= 1
          /\ \A i \in failed_records : i = Len(rs)
          /\ Unwrap(report).failed = Cardinality(failed_records)

\* The run stopped at a failure that follows a skipped and a passed
\* record, with a collected test left that has no record.
AtMostOneFailedAndLastWitness ==
    /\ fail_fast
    /\ IsSome(report)
    /\ LET rs == Unwrap(report).results
       IN /\ Len(rs) >= 3
          /\ rs[Len(rs)].status = "failed"
          /\ ResultsWithStatus(rs, "skipped") # {}
          /\ ResultsWithStatus(rs, "passed") # {}
          /\ \E id \in CollectedTests : \A i \in 1..Len(rs) : rs[i].unique_id # id

\* ------------------------------------------------------------------------
\* The stream of reporter events
\* ------------------------------------------------------------------------
\* The events of one kind, by their place in the stream.
EventsOfKind(kind) == {i \in 1..Len(events) : events[i][1] = kind}

\* The file event that opens the part of the stream the event at k is in.
OpenFileAt(file_starts, k) == {i \in file_starts : i < k /\ \A j \in file_starts : j < k => j <= i}

\* C40: in the stream of reporter events the suite-start event precedes
\* every file event; each file-start event is followed by completion
\* events of the tests of that file only and then by the file-completed
\* event of that file, before the next file-start event or the
\* suite-completed event, on every exit path, the fail-fast exit included.
ReporterStreamWellFormed ==
    LET file_starts == EventsOfKind("start_file")
        file_ends == EventsOfKind("file_completed")
    IN /\ events # <<>> => events[1] = <<"start_suite">>
       /\ \A i \in file_starts :
             \A j \in file_starts \cup EventsOfKind("finish_suite") :
                i < j => \E k \in file_ends : i < k /\ k < j /\ events[k][2] = events[i][2]
       /\ \A k \in file_ends :
             \E i \in OpenFileAt(file_starts, k) :
                /\ events[i][2] = events[k][2]
                /\ \A e \in file_ends : ~(i < e /\ e < k)
       /\ \A k \in EventsOfKind("test_completed") :
             \E i \in OpenFileAt(file_starts, k) :
                /\ events[i][2] = events[k][2][1]
                /\ \A e \in file_ends : ~(i < e /\ e < k)

====
